---- MODULE Spec2Model ----
(***************************************************************************)
(* A model of the three request handlers of the travel recommendation      *)
(* back end:                                                               *)
(*   lambda_code/airport_resolver.py   city -> primary airport + alternatives *)
(*   lambda_code/flight_pricer.py      origin + destinations -> price map  *)
(*   lambda_code/index_calculator.py   origin (+ alternatives) -> top 3    *)
(*                                                                         *)
(* Python's None is the empty sequence <<>> and a present value x is the   *)
(* one-element sequence <<x>>, so that optional values of any type can be  *)
(* compared.                                                               *)
(***************************************************************************)
EXTENDS Integers, Sequences, FiniteSets, TLC

None == <<>>
Some(x) == <<x>>
IsNone(o) == o = <<>>
Val(o) == o[1]

Min2(a, b) == IF a <= b THEN a ELSE b
Max2(a, b) == IF a >= b THEN a ELSE b
Abs(x) == IF x < 0 THEN -x ELSE x

\* list[:n]
Take(s, n) == SubSeq(s, 1, Min2(n, Len(s)))

(***************************************************************************)
(* Strings.  str.strip() and str.upper() on the strings the model uses.    *)
(***************************************************************************)
Strip(s) ==
    CASE s = " "     -> ""
      [] s = " mad " -> "mad"
      [] s = " par"  -> "par"
      [] s = "lis "  -> "lis"
      [] OTHER       -> s

Upper(s) ==
    CASE s = "es"  -> "ES"
      [] s = "fr"  -> "FR"
      [] s = "pt"  -> "PT"
      [] s = "mad" -> "MAD"
      [] s = "par" -> "PAR"
      [] s = "lis" -> "LIS"
      [] s = "rom" -> "ROM"
      [] s = "bcn" -> "BCN"
      [] OTHER     -> s

\* s.strip().upper()
StripUpper(s) == Upper(Strip(s))

\* A JSON value that is no string (a number, null) has no strip(): calling it
\* raises AttributeError.  The value below stands for such a value, and only
\* IsString looks at it.
NotAString == "<a JSON number>"
IsString(v) == v # NotAString

(***************************************************************************)
(* airport_resolver.py                                                     *)
(*                                                                         *)
(* Coordinates: every point of the model lies on one meridian, so a point  *)
(* is its latitude in whole degrees and the great-circle distance of       *)
(* haversine_distance is r * dlat (radians), 6371 * pi / 180 = 111 km per  *)
(* degree in whole kilometres.                                             *)
(***************************************************************************)
KmPerDegree == 111

haversine_distance(lat1, lat2) == KmPerDegree * Abs(lat2 - lat1)

(***************************************************************************)
(* haversine_distance in full (lines 35-52), for points off the meridian.  *)
(* Angles are whole degrees; sines, cosines and the angle c are in         *)
(* thousandths, the haversine a in millionths, the result in whole         *)
(* kilometres.  sin and cos are the library's, given as tables: sin is odd *)
(* and is tabulated at half degrees, since the code takes sin(d / 2).      *)
(***************************************************************************)
\* sin(radians(k / 2)) for k = 0 .. 16, in thousandths.
SinOfHalfDegrees ==
    << 0, 9, 17, 26, 35, 44, 52, 61, 70, 78, 87, 96, 105, 113, 122, 131, 139 >>

\* sin(d / 2) for a difference d of whole degrees.
SinHalf(d) == IF d < 0 THEN 0 - SinOfHalfDegrees[(0 - d) + 1] ELSE SinOfHalfDegrees[d + 1]

\* cos(radians(lat)), in thousandths.
Cos(lat) ==
    CASE lat = 38 -> 788
      [] lat = 40 -> 766
      [] lat = 42 -> 743
      [] lat = 47 -> 682
      [] lat = 50 -> 643

\* sqrt: the root of a value in millionths, in thousandths.
Sqrt(a) == CHOOSE x \in 0..1000 : x * x <= a /\ a < (x + 1) * (x + 1)

\* asin of a value in thousandths, by its series x + x^3 / 6.
Asin(x) == x + (x * x * x) \div 6000000

\* Radius of earth in kilometres (line 51).
EarthRadiusKm == 6371

haversine_SecondLatitudeTwice(lat1, lon1, lat2, lon2) ==
    LET dlat == lat2 - lat1
        dlon == lon2 - lon1
        a == SinHalf(dlat) * SinHalf(dlat)
             + (((Cos(lat2) * Cos(lat2)) \div 1000) * (SinHalf(dlon) * SinHalf(dlon))) \div 1000
        c == 2 * Asin(Sqrt(a))
    IN (c * EarthRadiusKm) \div 1000

\* Lines 35-52.
haversine(lat1, lon1, lat2, lon2) ==
    LET dlat == lat2 - lat1
        dlon == lon2 - lon1
        a == SinHalf(dlat) * SinHalf(dlat)
             + (((Cos(lat1) * Cos(lat2)) \div 1000) * (SinHalf(dlon) * SinHalf(dlon))) \div 1000
        c == 2 * Asin(Sqrt(a))
    IN (c * EarthRadiusKm) \div 1000

\* The local dataset airports_data.json, loaded once and read-only.
AIRPORTS_DATA ==
    << [iata |-> "MAD", country |-> "ES", lat |-> 40],
       [iata |-> "TLS", country |-> "FR", lat |-> 43],
       [iata |-> "OPO", country |-> "PT", lat |-> 41],
       [iata |-> "BCN", country |-> "ES", lat |-> 41],
       [iata |-> "LIS", country |-> "PT", lat |-> 39],
       [iata |-> "BOD", country |-> "FR", lat |-> 44],
       [iata |-> "AGP", country |-> "ES", lat |-> 37] >>

load_airports_data == AIRPORTS_DATA

LOCAL_MAX_DISTANCE_KM == 500
REMOTE_MAX_DISTANCE_KM == 200
TOP_AIRPORTS == 5
MAX_ALTERNATIVES == 3

\* Candidate without the penalty of line 77.
Candidate_Unweighted(airport, latitude, expected_country_code) ==
    LET distance == haversine_distance(latitude, airport.lat)
    IN [airport_code |-> airport.iata,
        country_code |-> airport.country,
        latitude |-> airport.lat,
        distance_km |-> distance,
        weighted_distance |-> distance]

\* The candidate built for one airport of the dataset (lines 79-88).
Candidate(airport, latitude, expected_country_code) ==
    LET distance == haversine_distance(latitude, airport.lat)
        country_match == expected_country_code = ""
                         \/ airport.country = expected_country_code
    IN [airport_code |-> airport.iata,
        country_code |-> airport.country,
        latitude |-> airport.lat,
        distance_km |-> distance,
        weighted_distance |-> IF country_match THEN distance ELSE distance * 2]

\* The loop without the test of line 70.
RECURSIVE Candidates_NoRadius(_, _, _, _)
Candidates_NoRadius(airports, latitude, expected_country_code, max_distance_km) ==
    IF airports = <<>> THEN <<>>
    ELSE << Candidate(Head(airports), latitude, expected_country_code) >>
         \o Candidates_NoRadius(Tail(airports), latitude, expected_country_code,
                                max_distance_km)

\* The loop of lines 66-88: the candidates within max_distance_km, in dataset order.
RECURSIVE Candidates(_, _, _, _)
Candidates(airports, latitude, expected_country_code, max_distance_km) ==
    IF airports = <<>> THEN <<>>
    ELSE LET c == Candidate(Head(airports), latitude, expected_country_code)
         IN (IF c.distance_km > max_distance_km THEN <<>> ELSE <<c>>)
            \o Candidates(Tail(airports), latitude, expected_country_code, max_distance_km)

\* A sort on distance_km in place of weighted_distance.
RECURSIVE InsertByWeight_ByDistance(_, _)
InsertByWeight_ByDistance(c, sorted) ==
    IF sorted = <<>> THEN <<c>>
    ELSE IF Head(sorted).distance_km <= c.distance_km
         THEN <<Head(sorted)>> \o InsertByWeight_ByDistance(c, Tail(sorted))
         ELSE <<c>> \o sorted

\* list.sort(key=weighted_distance): stable, ascending.
RECURSIVE InsertByWeight(_, _)
InsertByWeight(c, sorted) ==
    IF sorted = <<>> THEN <<c>>
    ELSE IF Head(sorted).weighted_distance <= c.weighted_distance
         THEN <<Head(sorted)>> \o InsertByWeight(c, Tail(sorted))
         ELSE <<c>> \o sorted

RECURSIVE SortByWeight(_)
SortByWeight(s) ==
    IF s = <<>> THEN <<>>
    ELSE InsertByWeight(s[Len(s)], SortByWeight(SubSeq(s, 1, Len(s) - 1)))

SortedCandidates(latitude, expected_country_code, max_distance_km) ==
    SortByWeight(Candidates(load_airports_data, latitude, expected_country_code,
                            max_distance_km))

\* find_nearest_airport_local(..., return_alternatives=False): the nearest or None.
find_nearest_airport_local(latitude, expected_country_code, max_distance_km) ==
    LET candidates == SortedCandidates(latitude, expected_country_code, max_distance_km)
    IN IF candidates = <<>> THEN None ELSE Some(candidates[1])

\* find_nearest_airport_local(..., return_alternatives=True): the top 5 or [].
find_nearest_airport_local_alternatives(latitude, expected_country_code, max_distance_km) ==
    Take(SortedCandidates(latitude, expected_country_code, max_distance_km), TOP_AIRPORTS)

\* The fields of a candidate an alternative of the response has (lines 461-467).
Alternative(apt) ==
    [airport_code |-> apt.airport_code,
     distance_km |-> apt.distance_km,
     latitude |-> apt.latitude]

\* [{...} for apt in all_alternatives if apt.airport_code != primary]
RECURSIVE WithoutCode(_, _)
WithoutCode(airports, code) ==
    IF airports = <<>> THEN <<>>
    ELSE (IF Head(airports).airport_code # code THEN << Alternative(Head(airports)) >>
          ELSE <<>>)
         \o WithoutCode(Tail(airports), code)

\* The filter applied to the first 3 of the list instead of the cut after it.
BuildAlternatives_CutThenFilter(all_alternatives, primary_code) ==
    WithoutCode(Take(all_alternatives, MAX_ALTERNATIVES), primary_code)

\* Lines 460-470: filter out the primary, then [:3].
BuildAlternatives(all_alternatives, primary_code) ==
    Take(WithoutCode(all_alternatives, primary_code), MAX_ALTERNATIVES)

(***************************************************************************)
(* The state: the three handlers' frames, and what outlives an invocation: *)
(* the price cache (a table) and the clock.                                *)
(***************************************************************************)
VARIABLES
    r_pc,               \* where the resolver's handler stands
    r_city,             \* city, stripped
    r_country,          \* country, stripped
    r_coords,           \* geocode_city's result: None or (latitude, expected_country_code)
    r_secrets,          \* get_api_keys' result
    r_access_token,     \* get_amadeus_access_token's result
    r_remote,           \* what find_nearest_airport returned (kept for the record)
    r_airport_data,     \* airport_data: the primary being decided
    r_use_llm_fallback, \* use_llm_fallback
    r_response,         \* the handler's return value, None while it runs
    r_calls,            \* calls made for this request, per collaborator
    h_measured          \* for the record: a pair of points and what haversine gave for it

r_vars == << r_pc, r_city, r_country, r_coords, r_secrets, r_access_token, r_remote,
             r_airport_data, r_use_llm_fallback, r_response, r_calls, h_measured >>

VARIABLES
    cache,                \* the table's flight_cache items: cache key -> None or item
    put_log,              \* for the record: the store_flight_cache calls per key, in order
    failed_in,            \* for the record: per key, the request whose query last gave no price
    now,                  \* int(time.time()), in hours
    requests,             \* top-level requests received so far
    exchanges,            \* token exchanges made since the top-level request arrived
    p_pc,                 \* where the pricer's handler stands
    p_caller,             \* who invoked the pricer: "client" or "scoring"
    p_departure_airport,  \* departure_airport, stripped and upper-cased
    p_destinations,       \* destinations, as received
    p_secrets,            \* get_api_keys' result
    p_access_token,       \* access_token
    p_exchanges,          \* token exchanges made by this invocation
    p_cache_at_start,     \* the cache when the units were submitted (for the record)
    p_units,              \* the futures: unit index -> its state
    p_flight_prices,      \* flight_prices
    p_response            \* the handler's return value, None while it runs

p_vars == << cache, put_log, failed_in, now, requests, exchanges, p_pc, p_caller, p_departure_airport,
             p_destinations, p_secrets, p_access_token, p_exchanges,
             p_cache_at_start, p_units, p_flight_prices, p_response >>

VARIABLES
    s_pc,                 \* where the scoring handler stands
    s_departure_airport,  \* departure_airport: the origin scoring reports
    s_requested,          \* the departure airport as requested, normalised
    s_alternatives,       \* alternatives, as received
    s_destinations,       \* destinations
    s_flight_prices,      \* flight_prices
    s_valid_prices,       \* whether valid_prices (of the primary) is non-empty
    s_alt,                \* the position of the loop over alternatives
    s_calls,              \* the get_flight_prices calls so far, with their results
    s_response            \* the handler's return value, None while it runs

s_vars == << s_pc, s_departure_airport, s_requested, s_alternatives, s_destinations,
             s_flight_prices, s_valid_prices, s_alt, s_calls, s_response >>

vars == << r_vars, p_vars, s_vars >>

(***************************************************************************)
(* What the outside world can hand to the resolver.                        *)
(***************************************************************************)
\* Raw request fields: body.get('city', ''), body.get('country', '').
RequestCities == {"", " ", "Madrid"}
RequestCountries == {"", "Spain"}

\* Latitudes the geocoder places a city at: 47 has its nearest airport (BOD)
\* 333 km away, 50 is farther than 500 km from every airport of the dataset.
QueryLats == {40, 42, 47, 50}

\* Nominatim: an error / no result (None), or the first result with its
\* structured and its top-level country code.
GeocodeReplies ==
    {None} \cup
    { Some([lat |-> l, address_country_code |-> a, country_code |-> c]) :
        l \in QueryLats, a \in {"", "es"}, c \in {"", "fr"} }

\* Secrets Manager: an error (None) or the secret's keys.
SecretReplies ==
    { None,
      Some({"amadeus_api_key"}),
      Some({"amadeus_api_key", "amadeus_api_secret"}) }

\* The token exchange: an error (None), no access_token in the reply, or a token.
ResolverTokenReplies == { None, Some(""), Some("token") }

\* The airport API: an error or no data (None), or data[0] as airport_data.
\* Where the remote API places the airports it returns; XRY is an airport
\* the local dataset does not hold.
RemoteLatitude(code) == IF code = "BOD" THEN 44 ELSE 40

RemoteAirportReplies ==
    {None} \cup
    { Some([airport_code |-> c, country_code |-> cc, latitude |-> RemoteLatitude(c),
            distance_km |-> d]) :
        c \in {"MAD", "XRY", "BOD"}, cc \in {"ES", "es", "FR"}, d \in {5, 200, 201, 333} }

NoCalls == [geocode |-> 0, secrets |-> 0, token |-> 0, airports |-> 0, local |-> 0]

RInit ==
    /\ r_pc = "idle"
    /\ r_city = ""
    /\ r_country = ""
    /\ r_coords = None
    /\ r_secrets = None
    /\ r_access_token = None
    /\ r_remote = None
    /\ r_airport_data = None
    /\ r_use_llm_fallback = FALSE
    /\ r_response = None
    /\ r_calls = NoCalls
    /\ h_measured = None

ErrorResponse(code, message) == Some([statusCode |-> code, error |-> message])

\* Lines 339-373: parse the body, strip the fields, reject an empty one.
R_Receive ==
    /\ r_pc = "idle"
    /\ \E city \in RequestCities, country \in RequestCountries :
         /\ r_city' = Strip(city)
         /\ r_country' = Strip(country)
         /\ IF Strip(city) = "" \/ Strip(country) = ""
            THEN /\ r_response' = ErrorResponse(400, "Missing city or country")
                 /\ r_pc' = "done"
            ELSE /\ r_response' = None
                 /\ r_pc' = "geocode"
    /\ UNCHANGED << r_coords, r_secrets, r_access_token, r_remote, r_airport_data,
                    r_use_llm_fallback, r_calls >>
    /\ UNCHANGED << h_measured, p_vars, s_vars >>

\* geocode_city (lines 125-163): the country code is the structured one,
\* upper-cased, or when that is empty the top-level one, upper-cased.
geocode_city(reply) ==
    IF IsNone(reply) THEN None
    ELSE LET structured == Upper(Val(reply).address_country_code)
         IN Some([latitude |-> Val(reply).lat,
                  expected_country_code |->
                      IF structured = "" THEN Upper(Val(reply).country_code)
                      ELSE structured])

\* The handler going on to the secrets after a failed geocoding.
R_Geocode_GoesOn ==
    /\ r_pc = "geocode"
    /\ \E reply \in GeocodeReplies :
         /\ r_coords' = geocode_city(reply)
         /\ r_response' = r_response
         /\ r_pc' = "secrets"
    /\ r_calls' = [r_calls EXCEPT !.geocode = @ + 1]
    /\ UNCHANGED << r_city, r_country, r_secrets, r_access_token, r_remote,
                    r_airport_data, r_use_llm_fallback >>
    /\ UNCHANGED << h_measured, p_vars, s_vars >>

\* Lines 375-389.
R_Geocode ==
    /\ r_pc = "geocode"
    /\ \E reply \in GeocodeReplies :
         /\ r_coords' = geocode_city(reply)
         /\ IF IsNone(geocode_city(reply))
            THEN /\ r_response' = ErrorResponse(404, "Could not geocode")
                 /\ r_pc' = "done"
            ELSE /\ r_response' = r_response
                 /\ r_pc' = "secrets"
    /\ r_calls' = [r_calls EXCEPT !.geocode = @ + 1]
    /\ UNCHANGED << r_city, r_country, r_secrets, r_access_token, r_remote,
                    r_airport_data, r_use_llm_fallback >>
    /\ UNCHANGED << h_measured, p_vars, s_vars >>

\* not secrets or a key missing (lines 393, 252)
SecretsUsable(secrets) ==
    /\ ~IsNone(secrets)
    /\ "amadeus_api_key" \in Val(secrets)
    /\ "amadeus_api_secret" \in Val(secrets)

\* Lines 391-403.
R_GetApiKeys ==
    /\ r_pc = "secrets"
    /\ \E reply \in SecretReplies :
         /\ r_secrets' = reply
         /\ IF SecretsUsable(reply)
            THEN /\ r_response' = r_response
                 /\ r_pc' = "token"
            ELSE /\ r_response' = ErrorResponse(500, "Failed to retrieve Amadeus API keys")
                 /\ r_pc' = "done"
    /\ r_calls' = [r_calls EXCEPT !.secrets = @ + 1]
    /\ UNCHANGED << r_city, r_country, r_coords, r_access_token, r_remote,
                    r_airport_data, r_use_llm_fallback >>
    /\ UNCHANGED << h_measured, p_vars, s_vars >>

\* not access_token
TokenUsable(token) == ~IsNone(token) /\ Val(token) # ""

\* What the resolver does when the token exchange gave no token (lines 411-421).
ResolverOnNoToken ==
    /\ r_response' = ErrorResponse(500, "Failed to get Amadeus access token")
    /\ r_pc' = "done"

\* Lines 405-421.
R_GetToken ==
    /\ r_pc = "token"
    /\ \E reply \in ResolverTokenReplies :
         /\ r_access_token' = reply
         /\ IF TokenUsable(reply)
            THEN /\ r_response' = r_response
                 /\ r_pc' = "airports"
            ELSE ResolverOnNoToken
    /\ r_calls' = [r_calls EXCEPT !.token = @ + 1]
    /\ UNCHANGED << r_city, r_country, r_coords, r_secrets, r_remote,
                    r_airport_data, r_use_llm_fallback >>
    /\ UNCHANGED << h_measured, p_vars, s_vars >>

\* Lines 423-424: find_nearest_airport (lines 195-251).
R_FindNearestAirport ==
    /\ r_pc = "airports"
    /\ \E reply \in RemoteAirportReplies :
         /\ r_remote' = reply
         /\ r_airport_data' = reply
    /\ r_pc' = "validate"
    /\ r_calls' = [r_calls EXCEPT !.airports = @ + 1]
    /\ UNCHANGED << r_city, r_country, r_coords, r_secrets, r_access_token,
                    r_use_llm_fallback, r_response >>
    /\ UNCHANGED << h_measured, p_vars, s_vars >>

\* UseFallback comparing the country codes as they come, without upper().
UseFallback_CaseSensitive(airport_data, expected_country_code) ==
    \/ IsNone(airport_data)
    \/ /\ ~IsNone(airport_data)
       /\ \/ Val(airport_data).distance_km > REMOTE_MAX_DISTANCE_KM
          \/ /\ expected_country_code # ""
             /\ Val(airport_data).country_code # expected_country_code

\* Step 5 (lines 426-436): whether the remote result is rejected.
UseFallback(airport_data, expected_country_code) ==
    \/ IsNone(airport_data)
    \/ /\ ~IsNone(airport_data)
       /\ \/ Val(airport_data).distance_km > REMOTE_MAX_DISTANCE_KM
          \/ /\ expected_country_code # ""
             /\ Upper(Val(airport_data).country_code) # expected_country_code

\* Steps 5 and 6 (lines 426-453).
R_Validate ==
    /\ r_pc = "validate"
    /\ LET lat == Val(r_coords).latitude
           ecc == Val(r_coords).expected_country_code
           fallback == UseFallback(r_airport_data, ecc)
           local == find_nearest_airport_local(lat, ecc, LOCAL_MAX_DISTANCE_KM)
       IN /\ r_use_llm_fallback' = fallback
          /\ IF fallback
             THEN /\ r_airport_data' = local
                  /\ r_calls' = [r_calls EXCEPT !.local = @ + 1]
                  /\ IF IsNone(local)
                     THEN /\ r_response' = ErrorResponse(404,
                               "Could not resolve airport using Amadeus API or local dataset")
                          /\ r_pc' = "done"
                     ELSE /\ r_response' = r_response
                          /\ r_pc' = "alternatives"
             ELSE /\ r_airport_data' = r_airport_data
                  /\ r_calls' = r_calls
                  /\ r_response' = r_response
                  /\ r_pc' = "alternatives"
    /\ UNCHANGED << r_city, r_country, r_coords, r_secrets, r_access_token, r_remote >>
    /\ UNCHANGED << h_measured, p_vars, s_vars >>

\* Lines 455-499: the alternatives and the response.
R_Respond ==
    /\ r_pc = "alternatives"
    /\ LET lat == Val(r_coords).latitude
           ecc == Val(r_coords).expected_country_code
           all_alternatives ==
               find_nearest_airport_local_alternatives(lat, ecc, LOCAL_MAX_DISTANCE_KM)
           primary == Val(r_airport_data)
       IN r_response' = Some([statusCode |-> 200,
                              airport_code |-> primary.airport_code,
                              city |-> r_city,
                              country |-> r_country,
                              latitude |-> lat,
                              airport_latitude |-> primary.latitude,
                              alternatives |->
                                  BuildAlternatives(all_alternatives, primary.airport_code)])
    /\ r_calls' = [r_calls EXCEPT !.local = @ + 1]
    /\ r_pc' = "done"
    /\ UNCHANGED << r_city, r_country, r_coords, r_secrets, r_access_token, r_remote,
                    r_airport_data, r_use_llm_fallback >>
    /\ UNCHANGED << h_measured, p_vars, s_vars >>

\* The invocation is over; the next one starts from a fresh handler frame.
R_Return ==
    /\ r_pc = "done"
    /\ r_pc' = "idle"
    /\ r_city' = ""
    /\ r_country' = ""
    /\ r_coords' = None
    /\ r_secrets' = None
    /\ r_access_token' = None
    /\ r_remote' = None
    /\ r_airport_data' = None
    /\ r_use_llm_fallback' = FALSE
    /\ r_response' = None
    /\ r_calls' = NoCalls
    /\ UNCHANGED << h_measured, p_vars, s_vars >>

RNext ==
    \/ R_Receive
    \/ R_Geocode
    \/ R_GetApiKeys
    \/ R_GetToken
    \/ R_FindNearestAirport
    \/ R_Validate
    \/ R_Respond
    \/ R_Return


(***************************************************************************)
(* flight_pricer.py                                                        *)
(*                                                                         *)
(* Prices are whole euros.  The clock counts hours; a handler invocation   *)
(* (bounded by request timeouts of 30 s and 60 s) is short against the     *)
(* clock's step, so the clock advances between invocations.                *)
(*                                                                         *)
(* The table behind the cache answers every get_item and put_item: the     *)
(* except branches of check_flight_cache and store_flight_cache (lines     *)
(* 90-92, 113-115) are not taken.  Invocations are served one at a time.   *)
(* The destinations of a request name each airport once.                   *)
(***************************************************************************)
CACHE_TTL_HOURS == 24
MAX_WORKERS == 10
TickHours == CACHE_TTL_HOURS \div 2
MaxTicks == 3
MaxRequests == 2
MaxScoringRequests == 1

\* A conversion that keeps the tens of the price only.
ToDecimal_Tens(price) == [decimal |-> (price \div 10) * 10]

\* Decimal(str(price)) on the way in, float(item['price']) on the way out.
ToDecimal(price) == [decimal |-> price]
ToFloat(item_price) == item_price.decimal

\* Every airport code the pricer can see, raw codes normalised.
Codes == {"MAD", "LIS", "PAR", "ROM", "XXX", "BCN",
          "TLS", "OPO", "BOD", "AGP", "LHR", "FCO"}
Origins == {"MAD", "LIS", "BCN"}
CacheKeys == Origins \X Codes

\* A key that is the same for a pair and for its reverse.
CacheKey_Undirected(departure_airport, destination_airport) ==
    CHOOSE k \in CacheKeys :
        {k[1], k[2]} = {departure_airport, destination_airport}

\* cache_key = f"{departure_airport}|{destination_airport}"
CacheKey(departure_airport, destination_airport) ==
    << departure_airport, destination_airport >>

\* dict.get(key) and dict[key] = value, a dict being a function on its keys.
EmptyDict == << >>
DictGet(d, key) == IF key \in DOMAIN d THEN d[key] ELSE None
DictPut(d, key, value) ==
    [k \in (DOMAIN d) \cup {key} |-> IF k = key THEN value ELSE d[k]]

\* check_flight_cache without the comparison of line 84.
check_flight_cache_NoExpiry(item, current_time) ==
    IF ~IsNone(item) THEN Some(ToFloat(Val(item).price)) ELSE None

\* check_flight_cache (lines 66-92) on the table's item for the key (None: no
\* item): the price when the ttl is still ahead of the clock, else None.
check_flight_cache(item, current_time) ==
    IF ~IsNone(item) /\ Val(item).ttl > current_time
    THEN Some(ToFloat(Val(item).price))
    ELSE None

\* An item whose ttl is not counted from the time of the call.
CacheItem_FixedTtl(price, current_time) ==
    Some([price |-> ToDecimal(price), ttl |-> CACHE_TTL_HOURS])

\* The item store_flight_cache puts (lines 100-108).
CacheItem(price, current_time) ==
    Some([price |-> ToDecimal(price), ttl |-> current_time + CACHE_TTL_HOURS])

\* One offer of the flight API's reply: it may lack price.total, and its total
\* may not parse as a number.
Offer(total) == [has_total |-> TRUE, numeric |-> TRUE, total |-> total]
OfferNoTotal == [has_total |-> FALSE, numeric |-> FALSE, total |-> 0]
OfferBadTotal == [has_total |-> TRUE, numeric |-> FALSE, total |-> 0]

\* The flight API's answer to one query: a failed request (timeout, HTTP error,
\* body that is no JSON), or the offers in 'data'.
FlightError == [ok |-> FALSE, data |-> << >>]
FlightData(offers) == [ok |-> TRUE, data |-> offers]
FlightReplies ==
    { FlightError,
      FlightData(<< >>),
      FlightData(<< Offer(525), Offer(145) >>),
      FlightData(<< OfferNoTotal, Offer(525) >>),
      FlightData(<< OfferBadTotal, Offer(145) >>) }

\* prices[0] in place of min(prices).
MinOf_First(prices) == prices[1]

\* min(prices)
RECURSIVE MinOf(_)
MinOf(prices) ==
    IF Len(prices) = 1 THEN prices[1]
    ELSE Min2(prices[1], MinOf(Tail(prices)))

\* The loop of lines 176-179: the totals of the offers that have one.
RECURSIVE OfferPrices(_)
OfferPrices(offers) ==
    IF offers = << >> THEN << >>
    ELSE (IF Head(offers).has_total THEN << Head(offers).total >> ELSE << >>)
         \o OfferPrices(Tail(offers))

\* search_flight_price (lines 118-200) on the API's reply: the cheapest total,
\* or None on a failed request, on no offers, on no offer with a total, and
\* when float() raises on a total.
search_flight_price(reply) ==
    IF ~reply.ok THEN None
    ELSE IF \E i \in 1..Len(reply.data) :
               reply.data[i].has_total /\ ~reply.data[i].numeric
    THEN None
    ELSE IF OfferPrices(reply.data) = << >> THEN None
    ELSE Some(MinOf(OfferPrices(reply.data)))

(***************************************************************************)
(* What the outside world can hand to the pricer.                          *)
(***************************************************************************)
\* body.get('departure_airport', '')
RequestDepartures == {"", " mad "}

\* body.get('destinations', []): codes as the caller wrote them, no code twice.
\* XXX is a code no airport has; the last list has an element that is no string.
RequestDestinations == { << >>, << " par", "XXX" >>, << " par", NotAString >> }

\* The token exchange of flight_pricer: an error or a reply without
\* access_token (None), or a token.
TokenOutcomes == {"error", "token"}

\* A request for more destinations than the pool has workers.
LongRequest ==
    << "PAR", "ROM", "LIS", "BCN", "TLS", "OPO", "BOD", "AGP", "LHR", "FCO", "XXX" >>

\* The table before any price was stored.
ColdCache == [k \in CacheKeys |-> None]

\* The table as an earlier request from MAD left it within the hour: a price
\* for every destination of LongRequest.
WarmCache ==
    [k \in CacheKeys |->
        IF k[1] = "MAD" /\ \E n \in 1..Len(LongRequest) : LongRequest[n] = k[2]
        THEN CacheItem(145, 0)
        ELSE None]

\* The calls that left the table as it is: one per item, at ttl - 24 h.
LogOf(table) ==
    [k \in DOMAIN table |->
        IF IsNone(table[k]) THEN << >>
        ELSE << [price |-> ToFloat(Val(table[k]).price),
                 at |-> Val(table[k]).ttl - CACHE_TTL_HOURS] >>]

PInitWith(table) ==
    /\ cache = table
    /\ put_log = LogOf(table)
    /\ failed_in = [k \in CacheKeys |-> 0]
    /\ now = 0
    /\ requests = 0
    /\ exchanges = 0
    /\ p_pc = "idle"
    /\ p_caller = "client"
    /\ p_departure_airport = ""
    /\ p_destinations = << >>
    /\ p_secrets = None
    /\ p_access_token = None
    /\ p_exchanges = 0
    /\ p_cache_at_start = << >>
    /\ p_units = << >>
    /\ p_flight_prices = EmptyDict
    /\ p_response = None

PInit == PInitWith(ColdCache)

\* The handler's start without the test of the destinations.
PricerBegin_AnyDestinations(caller, departure_airport, destinations) ==
    /\ p_caller' = caller
    /\ p_departure_airport' = StripUpper(departure_airport)
    /\ p_destinations' = destinations
    /\ p_secrets' = None
    /\ p_access_token' = None
    /\ p_exchanges' = 0
    /\ p_cache_at_start' = << >>
    /\ p_units' = << >>
    /\ p_flight_prices' = EmptyDict
    /\ IF StripUpper(departure_airport) = ""
       THEN /\ p_response' = ErrorResponse(400, "Missing departure_airport or destinations")
            /\ p_pc' = "done"
       ELSE /\ p_response' = None
            /\ p_pc' = "secrets"

\* Lines 214-248 on a body: the frame of a new invocation.
PricerBegin(caller, departure_airport, destinations) ==
    /\ p_caller' = caller
    /\ p_departure_airport' = StripUpper(departure_airport)
    /\ p_destinations' = destinations
    /\ p_secrets' = None
    /\ p_access_token' = None
    /\ p_exchanges' = 0
    /\ p_cache_at_start' = << >>
    /\ p_units' = << >>
    /\ p_flight_prices' = EmptyDict
    /\ IF StripUpper(departure_airport) = "" \/ destinations = << >>
       THEN /\ p_response' = ErrorResponse(400, "Missing departure_airport or destinations")
            /\ p_pc' = "done"
       ELSE /\ p_response' = None
            /\ p_pc' = "secrets"

\* What a step of the pricer's own leaves alone outside the pricer's frame.
p_outside == << r_vars, s_vars, now, requests >>

\* Lines 250-262.
P_GetApiKeys ==
    /\ p_pc = "secrets"
    /\ \E reply \in SecretReplies :
         /\ p_secrets' = reply
         /\ IF SecretsUsable(reply)
            THEN /\ p_response' = p_response
                 /\ p_pc' = "token"
            ELSE /\ p_response' = ErrorResponse(500, "Failed to retrieve Amadeus API keys")
                 /\ p_pc' = "done"
    /\ UNCHANGED << cache, put_log, failed_in, exchanges, p_caller, p_departure_airport, p_destinations,
                    p_access_token, p_exchanges, p_cache_at_start, p_units,
                    p_flight_prices >>
    /\ UNCHANGED p_outside

\* get_amadeus_access_token (lines 32-63), called at lines 264-280: one
\* exchange, a token or None.  A token is named by the serial number of the
\* exchange that issued it.
P_GetToken ==
    /\ p_pc = "token"
    /\ exchanges' = exchanges + 1
    /\ p_exchanges' = p_exchanges + 1
    /\ \E outcome \in TokenOutcomes :
         IF outcome = "token"
         THEN /\ p_access_token' = Some(exchanges + 1)
              /\ p_response' = p_response
              /\ p_pc' = "submit"
         ELSE /\ p_access_token' = None
              /\ p_response' = ErrorResponse(500, "Failed to get Amadeus access token")
              /\ p_pc' = "done"
    /\ UNCHANGED << cache, put_log, failed_in, p_caller, p_departure_airport, p_destinations, p_secrets,
                    p_cache_at_start, p_units, p_flight_prices >>
    /\ UNCHANGED p_outside

NewUnit(dest) ==
    [st |-> "queued", raw |-> dest, code |-> "", cached_price |-> None,
     queried |-> FALSE, reply |-> None, token |-> None, price |-> None,
     stored |-> FALSE, result |-> None, raised |-> FALSE]

\* Lines 305-317: one future per destination, in the order of the list.
P_Submit ==
    /\ p_pc = "submit"
    /\ p_units' = [i \in 1..Len(p_destinations) |-> NewUnit(p_destinations[i])]
    /\ p_cache_at_start' = cache
    /\ p_flight_prices' = EmptyDict
    /\ p_pc' = "running"
    /\ UNCHANGED << cache, put_log, failed_in, exchanges, p_caller, p_departure_airport, p_destinations,
                    p_secrets, p_access_token, p_exchanges, p_response >>
    /\ UNCHANGED p_outside

Units == DOMAIN p_units
Running == { i \in Units : p_units[i].st \in {"check", "search", "store"} }

\* What a step of one unit leaves alone.
p_frame == << exchanges, p_pc, p_caller, p_departure_airport, p_destinations,
              p_secrets, p_access_token, p_exchanges, p_cache_at_start, p_response >>

\* The with block of line 312 is open: its body runs ("running"), or an
\* exception has left the body and the pool's shutdown waits for every future
\* ("raising").
PoolOpen == p_pc \in {"running", "raising"}

\* A pool that starts a thread for every submitted unit.
P_Start_Unbounded(i) ==
    /\ PoolOpen
    /\ p_units[i].st = "queued"
    /\ \A j \in Units : j < i => p_units[j].st # "queued"
    /\ p_units' = [p_units EXCEPT ![i].st = "check"]
    /\ UNCHANGED << cache, put_log, failed_in, p_flight_prices >>
    /\ UNCHANGED << p_frame, p_outside >>

\* ThreadPoolExecutor(max_workers=10), line 312: a worker takes the oldest
\* queued unit while fewer than max_workers units run.
P_Start(i) ==
    /\ PoolOpen
    /\ p_units[i].st = "queued"
    /\ \A j \in Units : j < i => p_units[j].st # "queued"
    /\ Cardinality(Running) < MAX_WORKERS
    /\ p_units' = [p_units EXCEPT ![i].st = "check"]
    /\ UNCHANGED << cache, put_log, failed_in, p_flight_prices >>
    /\ UNCHANGED << p_frame, p_outside >>

\* Line 290 dropped: the flight query is made whatever the cache said.
AfterCheck_AlwaysSearch(cached_price) == "search"

\* Lines 290-293: a hit returns at once, a miss goes on to the flight query.
AfterCheck(cached_price) == IF IsNone(cached_price) THEN "search" ELSE "finished"

\* fetch_single_destination_price, lines 285-291: normalise the code, read the
\* cache, return the cached price on a hit.  strip() of a destination that is
\* no string raises, and the unit's future holds the exception.
P_CheckCache(i) ==
    /\ PoolOpen
    /\ p_units[i].st = "check"
    /\ IF IsString(p_units[i].raw)
       THEN LET destination_code == StripUpper(p_units[i].raw)
                cached_price ==
                    check_flight_cache(
                        cache[CacheKey(p_departure_airport, destination_code)], now)
            IN p_units' = [p_units EXCEPT
                   ![i].code = destination_code,
                   ![i].cached_price = cached_price,
                   ![i].result = cached_price,
                   ![i].st = AfterCheck(cached_price)]
       ELSE p_units' = [p_units EXCEPT ![i].raised = TRUE, ![i].st = "finished"]
    /\ UNCHANGED << cache, put_log, failed_in, p_flight_prices >>
    /\ UNCHANGED << p_frame, p_outside >>

\* A token of the unit's own in place of the handler's.
UnitToken_Own(i) == Some(exchanges + i)

\* The token a unit's flight query carries (line 294): the handler's access_token.
UnitToken(i) == p_access_token

\* A unit that repeats its flight query until it has a price.
\* A unit that goes to the store step whatever its query gave.
Queried_StoresAbsent(i, reply) ==
    LET price == search_flight_price(reply)
    IN [p_units EXCEPT
           ![i].queried = TRUE,
           ![i].reply = Some(reply),
           ![i].token = UnitToken(i),
           ![i].price = price,
           ![i].result = price,
           ![i].st = "store"]

\* Unit i once its flight query was answered with reply: the price goes to
\* the store step, no price ends the unit (lines 293-302).
Queried(i, reply) ==
    LET price == search_flight_price(reply)
    IN [p_units EXCEPT
           ![i].queried = TRUE,
           ![i].reply = Some(reply),
           ![i].token = UnitToken(i),
           ![i].price = price,
           ![i].result = price,
           ![i].st = IF IsNone(price) THEN "finished" ELSE "store"]

\* The flight query of unit i, noting for the record the request in which
\* the query of a pair gave no price.
P_SearchLogged(i) ==
    /\ PoolOpen
    /\ p_units[i].st = "search"
    /\ \E reply \in FlightReplies :
         /\ p_units' = Queried(i, reply)
         /\ failed_in' = IF IsNone(search_flight_price(reply))
                         THEN [failed_in EXCEPT
                                  ![CacheKey(p_departure_airport, p_units[i].code)] = requests]
                         ELSE failed_in
    /\ UNCHANGED << cache, put_log, p_flight_prices >>
    /\ UNCHANGED << p_frame, p_outside >>

P_Search_Retries(i) ==
    /\ PoolOpen
    /\ p_units[i].st = "search"
    /\ \E reply \in FlightReplies :
         LET price == search_flight_price(reply)
         IN p_units' = [p_units EXCEPT
                ![i].queried = TRUE,
                ![i].reply = Some(reply),
                ![i].token = UnitToken(i),
                ![i].price = price,
                ![i].result = price,
                ![i].st = IF IsNone(price) THEN "search" ELSE "store"]
    /\ UNCHANGED << cache, put_log, failed_in, p_flight_prices >>
    /\ UNCHANGED << p_frame, p_outside >>

\* fetch_single_destination_price, lines 293-302: the flight query of a miss,
\* answered by the flight API with any of its replies.
P_Search(i) ==
    /\ PoolOpen
    /\ p_units[i].st = "search"
    /\ \E reply \in FlightReplies : p_units' = Queried(i, reply)
    /\ UNCHANGED << cache, put_log, failed_in, p_flight_prices >>
    /\ UNCHANGED << p_frame, p_outside >>

\* A store that renews the ttl of an item it finds and leaves its price.
P_Store_KeepsPrice(i) ==
    /\ PoolOpen
    /\ p_units[i].st = "store"
    /\ LET key == CacheKey(p_departure_airport, p_units[i].code)
           price == Val(p_units[i].price)
           item == CacheItem(price, now)
           found == cache[key]
       IN /\ cache' = [cache EXCEPT ![key] =
                          IF IsNone(found) THEN item
                          ELSE Some([price |-> Val(found).price, ttl |-> Val(item).ttl])]
          /\ put_log' = [put_log EXCEPT ![key] =
                            Append(@, [price |-> price, at |-> now])]
    /\ p_units' = [p_units EXCEPT ![i].stored = TRUE, ![i].st = "finished"]
    /\ UNCHANGED << failed_in, p_flight_prices >>
    /\ UNCHANGED << p_frame, p_outside >>

\* store_flight_cache (lines 95-115), called at line 298 before the unit returns.
P_Store(i) ==
    /\ PoolOpen
    /\ p_units[i].st = "store"
    /\ LET key == CacheKey(p_departure_airport, p_units[i].code)
           price == Val(p_units[i].price)
       IN /\ cache' = [cache EXCEPT ![key] = CacheItem(price, now)]
          /\ put_log' = [put_log EXCEPT ![key] =
                            Append(@, [price |-> price, at |-> now])]
    /\ p_units' = [p_units EXCEPT ![i].stored = TRUE, ![i].st = "finished"]
    /\ UNCHANGED << failed_in, p_flight_prices >>
    /\ UNCHANGED << p_frame, p_outside >>

\* The k-th result to arrive is entered under the k-th destination of the list.
CollectInto_ByArrival(flight_prices, unit) ==
    DictPut(flight_prices,
            StripUpper(p_destinations[Cardinality(DOMAIN flight_prices) + 1]),
            unit.result)

\* flight_prices[destination_code] = price (line 323)
CollectInto(flight_prices, unit) == DictPut(flight_prices, unit.code, unit.result)

\* Lines 320-328: as_completed hands over any finished future.  The result of
\* a future that holds an exception raises it, and the except branch enters
\* None under dest.strip().upper(): for the dest that made the unit raise,
\* strip() raises again, this time in the handler, and leaves the with block.
P_Collect(i) ==
    /\ p_pc = "running"
    /\ p_units[i].st = "finished"
    /\ IF ~p_units[i].raised
       THEN /\ p_flight_prices' = CollectInto(p_flight_prices, p_units[i])
            /\ p_pc' = p_pc
       ELSE IF IsString(p_units[i].raw)
       THEN /\ p_flight_prices' = DictPut(p_flight_prices, StripUpper(p_units[i].raw), None)
            /\ p_pc' = p_pc
       ELSE /\ p_flight_prices' = p_flight_prices
            /\ p_pc' = "raising"
    /\ p_units' = [p_units EXCEPT ![i].st = "collected"]
    /\ UNCHANGED << cache, put_log, failed_in, exchanges, p_caller, p_departure_airport, p_destinations,
                    p_secrets, p_access_token, p_exchanges, p_cache_at_start,
                    p_response >>
    /\ UNCHANGED p_outside

\* What the caller gets when the handler raises: the runtime reports the
\* invocation as failed, and no flight_prices reach the caller.
UnhandledError == ErrorResponse(502, "Internal server error")

\* The exit of the with block of line 312 on an exception: shutdown waits for
\* the futures still queued or running, then the exception leaves the handler.
P_Raise ==
    /\ p_pc = "raising"
    /\ \A i \in Units : p_units[i].st \in {"finished", "collected"}
    /\ p_response' = UnhandledError
    /\ p_pc' = "done"
    /\ UNCHANGED << cache, put_log, failed_in, exchanges, p_caller, p_departure_airport, p_destinations,
                    p_secrets, p_access_token, p_exchanges, p_cache_at_start, p_units,
                    p_flight_prices >>
    /\ UNCHANGED p_outside

\* A response that leaves out the destinations that have no price.
P_Respond_PricedOnly ==
    /\ p_pc = "running"
    /\ \A i \in Units : p_units[i].st = "collected"
    /\ p_response' = Some([statusCode |-> 200,
                           departure_airport |-> p_departure_airport,
                           flight_prices |->
                               [k \in { c \in DOMAIN p_flight_prices :
                                           ~IsNone(p_flight_prices[c]) } |->
                                   p_flight_prices[k]]])
    /\ p_pc' = "done"
    /\ UNCHANGED << cache, put_log, failed_in, exchanges, p_caller, p_departure_airport, p_destinations,
                    p_secrets, p_access_token, p_exchanges, p_cache_at_start, p_units,
                    p_flight_prices >>
    /\ UNCHANGED p_outside

\* Lines 330-344: every future collected, the pool shut down.
P_Respond ==
    /\ p_pc = "running"
    /\ \A i \in Units : p_units[i].st = "collected"
    /\ p_response' = Some([statusCode |-> 200,
                           departure_airport |-> p_departure_airport,
                           flight_prices |-> p_flight_prices])
    /\ p_pc' = "done"
    /\ UNCHANGED << cache, put_log, failed_in, exchanges, p_caller, p_departure_airport, p_destinations,
                    p_secrets, p_access_token, p_exchanges, p_cache_at_start, p_units,
                    p_flight_prices >>
    /\ UNCHANGED p_outside

Idle == p_pc = "idle" /\ s_pc = "idle"

\* The pricer invoked over HTTP: POST /flight-prices.
P_Receive ==
    /\ Idle
    /\ requests < MaxRequests
    /\ requests' = requests + 1
    /\ exchanges' = 0
    /\ \E departure_airport \in RequestDepartures, destinations \in RequestDestinations :
         PricerBegin("client", departure_airport, destinations)
    /\ UNCHANGED << cache, put_log, failed_in, now >>
    /\ UNCHANGED << r_vars, s_vars >>

\* POST /flight-prices from MAD for the destinations of LongRequest.
P_ReceiveLong ==
    /\ Idle
    /\ requests = 0
    /\ requests' = requests + 1
    /\ exchanges' = 0
    /\ PricerBegin("client", "MAD", LongRequest)
    /\ UNCHANGED << cache, put_log, failed_in, now >>
    /\ UNCHANGED << r_vars, s_vars >>

\* The caller has its response; the handler's frame is gone.
PricerReset ==
    /\ p_pc' = "idle"
    /\ p_caller' = "client"
    /\ p_departure_airport' = ""
    /\ p_destinations' = << >>
    /\ p_secrets' = None
    /\ p_access_token' = None
    /\ p_exchanges' = 0
    /\ p_cache_at_start' = << >>
    /\ p_units' = << >>
    /\ p_flight_prices' = EmptyDict
    /\ p_response' = None

P_Return ==
    /\ p_pc = "done"
    /\ p_caller = "client"
    /\ PricerReset
    /\ UNCHANGED << cache, put_log, failed_in, now, requests, exchanges >>
    /\ UNCHANGED << r_vars, s_vars >>

\* time.time() moves on.
Tick ==
    /\ Idle
    /\ now < MaxTicks * TickHours
    /\ now' = now + TickHours
    /\ UNCHANGED << cache, put_log, failed_in, requests, exchanges, p_pc, p_caller, p_departure_airport,
                    p_destinations, p_secrets, p_access_token, p_exchanges,
                    p_cache_at_start, p_units, p_flight_prices, p_response >>
    /\ UNCHANGED << r_vars, s_vars >>

(***************************************************************************)
(* index_calculator.py                                                     *)
(*                                                                         *)
(* Scores are in millionths (1.0 is 1000000), weights in hundredths, and   *)
(* round(x, 3) gives thousandths.  Beer prices and the 0-10 metrics are in *)
(* tenths.                                                                 *)
(***************************************************************************)
One == 1000000
WEATHER_WEIGHT == 30
QOL_WEIGHT == 30
FLIGHT_WEIGHT == 40

\* Weights that leave a tenth out.
QOL_WEIGHTS_Short ==
    [beer_price |-> 10, michelin_restaurants |-> 20, food_quality |-> 25,
     walkability |-> 15, public_transport |-> 15, safety |-> 5]

QOL_WEIGHTS ==
    [beer_price |-> 10, michelin_restaurants |-> 20, food_quality |-> 25,
     walkability |-> 15, public_transport |-> 15, safety |-> 15]

\* dict.get(key, default) on an optional field
OrDefault(field, default) == IF IsNone(field) THEN default ELSE Val(field)

\* calculate_weather_score scoring missing weather data with 0.
calculate_weather_score_ZeroDefault(weather) ==
    IF IsNone(weather) THEN 0
    ELSE Max2(0, One - (Abs(Val(weather) - 20) * One) \div 30)

\* calculate_weather_score (lines 89-105); weather is avg_temperature or None.
calculate_weather_score(weather) ==
    IF IsNone(weather) THEN One \div 2
    ELSE Max2(0, One - (Abs(Val(weather) - 20) * One) \div 30)

\* A dict none of whose fields is there: {}.
NoQolField ==
    [beer_price_eur |-> None, michelin_restaurants |-> None,
     food_quality_score |-> None, walkability_score |-> None,
     public_transport_score |-> None, safety_score |-> None]

\* calculate_qol_score (lines 108-138); qol_data is None or the six optional
\* fields.  "not qol_data" holds of None and of {}.
calculate_qol_score(qol_data) ==
    IF IsNone(qol_data) \/ qol_data = Some(NoQolField) THEN One \div 2
    ELSE LET q == Val(qol_data)
             beer_price == OrDefault(q.beer_price_eur, 65)
             michelin == OrDefault(q.michelin_restaurants, 20)
             metrics ==
                 [beer_price |-> Max2(0, One - ((beer_price - 30) * One) \div 70),
                  michelin_restaurants |-> Min2(One, (michelin * One) \div 150),
                  food_quality |-> (OrDefault(q.food_quality_score, 70) * One) \div 100,
                  walkability |-> (OrDefault(q.walkability_score, 70) * One) \div 100,
                  public_transport |->
                      (OrDefault(q.public_transport_score, 70) * One) \div 100,
                  safety |-> (OrDefault(q.safety_score, 70) * One) \div 100]
         IN ( metrics.beer_price * QOL_WEIGHTS.beer_price
            + metrics.michelin_restaurants * QOL_WEIGHTS.michelin_restaurants
            + metrics.food_quality * QOL_WEIGHTS.food_quality
            + metrics.walkability * QOL_WEIGHTS.walkability
            + metrics.public_transport * QOL_WEIGHTS.public_transport
            + metrics.safety * QOL_WEIGHTS.safety ) \div 100

\* calculate_flight_score with the neutral default of the other two scores.
calculate_flight_score_HalfDefault(price) ==
    IF IsNone(price) \/ Val(price) <= 0 THEN One \div 2
    ELSE Max2(0, Min2(One, One - ((Val(price) - 50) * One) \div 950))

\* calculate_flight_score (lines 141-156); price is a price or None.
calculate_flight_score(price) ==
    IF IsNone(price) \/ Val(price) <= 0 THEN (3 * One) \div 10
    ELSE Max2(0, Min2(One, One - ((Val(price) - 50) * One) \div 950))

\* calculate_total_score (lines 159-168)
calculate_total_score(weather_score, qol_score, flight_score) ==
    ( weather_score * WEATHER_WEIGHT
    + qol_score * QOL_WEIGHT
    + flight_score * FLIGHT_WEIGHT ) \div 100

\* round(x, 3), in thousandths
Round3(x) == (x + 500) \div 1000

\* One entry of scored_destinations (lines 267-315).
ScoredDestination(destination, flight_prices) ==
    LET flight_price == DictGet(flight_prices, destination.iata_code)
        weather_score == calculate_weather_score(destination.weather)
        qol_score == calculate_qol_score(destination.quality_of_life)
        flight_score == calculate_flight_score(flight_price)
        total_score == calculate_total_score(weather_score, qol_score, flight_score)
    IN [city_id |-> destination.city_id,
        iata_code |-> destination.iata_code,
        scores |-> [weather_score |-> Round3(weather_score),
                    qol_score |-> Round3(qol_score),
                    flight_score |-> Round3(flight_score),
                    total_score |-> Round3(total_score)],
        details |-> [avg_temperature |-> destination.weather,
                     flight_price |-> flight_price,
                     quality_of_life |-> destination.quality_of_life]]

RECURSIVE ScoreAll(_, _)
ScoreAll(destinations, flight_prices) ==
    IF destinations = << >> THEN << >>
    ELSE << ScoredDestination(Head(destinations), flight_prices) >>
         \o ScoreAll(Tail(destinations), flight_prices)

\* A descending sort that puts the later of two equal scores first.
RECURSIVE InsertByScore_TiesReversed(_, _)
InsertByScore_TiesReversed(d, sorted) ==
    IF sorted = << >> THEN << d >>
    ELSE IF Head(sorted).scores.total_score > d.scores.total_score
         THEN << Head(sorted) >> \o InsertByScore_TiesReversed(d, Tail(sorted))
         ELSE << d >> \o sorted

\* list.sort(key=total_score, reverse=True): stable, descending.
RECURSIVE InsertByScore(_, _)
InsertByScore(d, sorted) ==
    IF sorted = << >> THEN << d >>
    ELSE IF Head(sorted).scores.total_score >= d.scores.total_score
         THEN << Head(sorted) >> \o InsertByScore(d, Tail(sorted))
         ELSE << d >> \o sorted

RECURSIVE SortByScore(_)
SortByScore(s) ==
    IF s = << >> THEN << >>
    ELSE InsertByScore(s[Len(s)], SortByScore(SubSeq(s, 1, Len(s) - 1)))

TOP_N == 3

\* destination_codes (line 236): the truthy iata codes, in table order.
RECURSIVE DestinationCodes(_)
DestinationCodes(destinations) ==
    IF destinations = << >> THEN << >>
    ELSE (IF Head(destinations).iata_code # "" THEN << Head(destinations).iata_code >>
          ELSE << >>)
         \o DestinationCodes(Tail(destinations))

\* valid_prices (lines 240, 253) is non-empty
HasValidPrice(flight_prices) ==
    \E k \in DOMAIN flight_prices : ~IsNone(flight_prices[k])

\* What get_flight_prices (lines 58-86) makes of the pricer's response.
PricesOfResponse(response) ==
    IF Val(response).statusCode = 200 THEN Val(response).flight_prices ELSE EmptyDict

(***************************************************************************)
(* What the outside world can hand to the scoring handler.                 *)
(***************************************************************************)
\* body.get('departure_airport', '')
ScoringDepartures == {"", "mad"}

\* body.get('alternatives', []): the airport_code of each, '' when it has none.
ScoringAlternatives == { << >>, << "LIS" >>, << "", "bcn", "LIS" >> }

FullQol ==
    Some([beer_price_eur |-> Some(65), michelin_restaurants |-> Some(75),
          food_quality_score |-> Some(80), walkability_score |-> Some(70),
          public_transport_score |-> Some(90), safety_score |-> Some(60)])

\* The destinations table: one record with everything, one with neither
\* weather nor quality of life, one without an iata code.
DestinationsTable ==
    << [city_id |-> "paris", iata_code |-> "PAR", weather |-> Some(20),
        quality_of_life |-> FullQol],
       [city_id |-> "rome", iata_code |-> "ROM", weather |-> None,
        quality_of_life |-> None],
       [city_id |-> "village", iata_code |-> "", weather |-> Some(35),
        quality_of_life |-> None] >>

\* Records of a destinations table that have no iata code, and so no price:
\* two without weather and quality of life, two whose totals (0.5720 and
\* 0.5724) round to the same thousandth, one without weather only, one with
\* every attribute above its range and one with every attribute below it.
\* Temperatures are in degrees, beer prices and the 0-10 metrics in tenths.
Uncoded(city_id, weather, quality_of_life) ==
    [city_id |-> city_id, iata_code |-> "", weather |-> weather,
     quality_of_life |-> quality_of_life]

RankingRecords ==
    { Uncoded("tie1", None, None),
      Uncoded("tie2", None, None),
      Uncoded("m0", Some(21), Some([NoQolField EXCEPT !.michelin_restaurants = Some(0)])),
      Uncoded("m1", Some(21), Some([NoQolField EXCEPT !.michelin_restaurants = Some(1)])),
      Uncoded("fog", None, FullQol),
      Uncoded("oven", Some(80),
              Some([beer_price_eur |-> Some(0), michelin_restaurants |-> Some(300),
                    food_quality_score |-> Some(150), walkability_score |-> Some(150),
                    public_transport_score |-> Some(150), safety_score |-> Some(150)])),
      Uncoded("pit", Some(20),
              Some([beer_price_eur |-> Some(200), michelin_restaurants |-> Some(-30),
                    food_quality_score |-> Some(-50), walkability_score |-> Some(-50),
                    public_transport_score |-> Some(-50), safety_score |-> Some(-50)])) }

MaxTable == 4

\* The tables of 1 to MaxTable of these records in any order, and three that
\* hold the priced record of DestinationsTable as well.
RankingTables ==
    { t \in UNION { [1..n -> RankingRecords] : n \in 1..MaxTable } :
        \A i, j \in DOMAIN t : i # j => t[i] # t[j] }
    \cup { << DestinationsTable[1] >>,
           << Uncoded("tie1", None, None), DestinationsTable[1] >>,
           << Uncoded("m0", Some(21), Some([NoQolField EXCEPT !.michelin_restaurants = Some(0)])),
              DestinationsTable[1],
              Uncoded("m1", Some(21), Some([NoQolField EXCEPT !.michelin_restaurants = Some(1)])),
              Uncoded("tie1", None, None) >> }

\* table.scan(): an error (None) or the items.
ScanReplies == { None, Some(<< >>), Some(DestinationsTable) }

SInit ==
    /\ s_pc = "idle"
    /\ s_departure_airport = ""
    /\ s_requested = ""
    /\ s_alternatives = << >>
    /\ s_destinations = << >>
    /\ s_flight_prices = EmptyDict
    /\ s_valid_prices = FALSE
    /\ s_alt = 0
    /\ s_calls = << >>
    /\ s_response = None

Init == RInit /\ PInit /\ SInit

\* The frame of the pricer's handler.
p_handler == << p_pc, p_caller, p_departure_airport, p_destinations, p_secrets,
                p_access_token, p_exchanges, p_cache_at_start, p_units,
                p_flight_prices, p_response >>

\* Lines 182-218: POST /travel-recommendations, the alternatives of the body
\* being one of the given lists.
S_ReceiveWith(alternatives_lists) ==
    /\ Idle
    /\ requests < MaxScoringRequests
    /\ requests' = requests + 1
    /\ exchanges' = 0
    /\ \E departure_airport \in ScoringDepartures, alternatives \in alternatives_lists :
         /\ s_departure_airport' = StripUpper(departure_airport)
         /\ s_requested' = StripUpper(departure_airport)
         /\ s_alternatives' = alternatives
         /\ IF StripUpper(departure_airport) = ""
            THEN /\ s_response' = ErrorResponse(400, "Missing departure_airport")
                 /\ s_pc' = "done"
            ELSE /\ s_response' = None
                 /\ s_pc' = "destinations"
    /\ s_destinations' = << >>
    /\ s_flight_prices' = EmptyDict
    /\ s_valid_prices' = FALSE
    /\ s_alt' = 0
    /\ s_calls' = << >>
    /\ UNCHANGED << cache, put_log, failed_in, now, p_handler, r_vars >>

S_Receive == S_ReceiveWith(ScoringAlternatives)

\* A request that names at most one alternative.
S_ReceivePlain == S_ReceiveWith({ << >>, << "LIS" >> })

\* get_all_destinations (lines 39-55): the items, [] on an error.
get_all_destinations(reply) == IF IsNone(reply) THEN << >> ELSE Val(reply)

\* Lines 220-233.
S_GetDestinations ==
    /\ s_pc = "destinations"
    /\ \E reply \in ScanReplies :
         /\ s_destinations' = get_all_destinations(reply)
         /\ IF get_all_destinations(reply) = << >>
            THEN /\ s_response' = ErrorResponse(500, "Failed to retrieve destinations")
                 /\ s_pc' = "done"
            ELSE /\ s_response' = s_response
                 /\ s_pc' = "primary"
    /\ UNCHANGED << s_departure_airport, s_requested, s_alternatives, s_flight_prices,
                    s_valid_prices, s_alt, s_calls >>
    /\ UNCHANGED << p_vars, r_vars >>

\* Lines 220-233 over one of RankingTables.
S_GetRankedDestinations ==
    /\ s_pc = "destinations"
    /\ \E table \in RankingTables :
         s_destinations' = get_all_destinations(Some(table))
    /\ s_pc' = "primary"
    /\ UNCHANGED << s_departure_airport, s_requested, s_alternatives, s_flight_prices,
                    s_valid_prices, s_alt, s_calls, s_response >>
    /\ UNCHANGED << p_vars, r_vars >>

\* get_flight_prices (lines 58-86), the call: the pricer is invoked with the
\* body, or lambda_client.invoke raises and the result is {}.
InvokePricer(airport, next_pc, failed_pc) ==
    \/ /\ PricerBegin("scoring", airport, DestinationCodes(s_destinations))
       /\ s_pc' = next_pc
       /\ s_calls' = s_calls
    \/ /\ s_pc' = failed_pc
       /\ s_calls' = Append(s_calls, [airport |-> airport, ran |-> FALSE,
                                      statusCode |-> 0, exchanges |-> 0,
                                      flight_prices |-> EmptyDict])
       /\ UNCHANGED p_handler

\* get_flight_prices (lines 58-86), the return: what the call is recorded as.
PricerCall ==
    [airport |-> p_departure_airport, ran |-> TRUE,
     statusCode |-> Val(p_response).statusCode, exchanges |-> p_exchanges,
     flight_prices |-> PricesOfResponse(p_response)]

\* Lines 235-237, the call for the requested airport.
S_InvokePrimary ==
    /\ s_pc = "primary"
    /\ InvokePricer(s_departure_airport, "wait_primary", "primary_failed")
    /\ UNCHANGED << s_departure_airport, s_requested, s_alternatives, s_destinations,
                    s_flight_prices, s_valid_prices, s_alt, s_response >>
    /\ UNCHANGED << cache, put_log, failed_in, now, requests, exchanges, r_vars >>

\* The test of valid_prices at line 240 dropped: the alternatives are tried
\* whatever the requested airport gave.
PrimaryPrices_AlwaysTries(flight_prices) ==
    /\ s_flight_prices' = flight_prices
    /\ s_valid_prices' = HasValidPrice(flight_prices)
    /\ s_alt' = 1
    /\ s_pc' = IF s_alternatives # << >> THEN "alternatives" ELSE "score"

\* Lines 237-242 once the prices of the requested airport are known.
PrimaryPrices(flight_prices) ==
    /\ s_flight_prices' = flight_prices
    /\ s_valid_prices' = HasValidPrice(flight_prices)
    /\ s_alt' = 1
    /\ s_pc' = IF ~HasValidPrice(flight_prices) /\ s_alternatives # << >>
               THEN "alternatives" ELSE "score"

S_ReturnPrimary ==
    /\ \/ /\ s_pc = "wait_primary"
          /\ p_pc = "done"
          /\ PrimaryPrices(PricesOfResponse(p_response))
          /\ s_calls' = Append(s_calls, PricerCall)
          /\ PricerReset
       \/ /\ s_pc = "primary_failed"
          /\ PrimaryPrices(EmptyDict)
          /\ UNCHANGED s_calls
          /\ UNCHANGED p_handler
    /\ UNCHANGED << s_departure_airport, s_requested, s_alternatives, s_destinations,
                    s_response >>
    /\ UNCHANGED << cache, put_log, failed_in, now, requests, exchanges, r_vars >>

\* Lines 246-252: the next alternative; one without a code is skipped.
S_NextAlternative ==
    /\ s_pc = "alternatives"
    /\ IF s_alt > Len(s_alternatives)
       THEN /\ s_pc' = "score"
            /\ UNCHANGED << s_alt, s_calls, p_handler >>
       ELSE LET alt_code == StripUpper(s_alternatives[s_alt])
            IN IF alt_code = ""
               THEN /\ s_alt' = s_alt + 1
                    /\ s_pc' = "alternatives"
                    /\ UNCHANGED << s_calls, p_handler >>
               ELSE /\ InvokePricer(alt_code, "wait_alternative", "alternative_failed")
                    /\ UNCHANGED s_alt
    /\ UNCHANGED << s_departure_airport, s_requested, s_alternatives, s_destinations,
                    s_flight_prices, s_valid_prices, s_response >>
    /\ UNCHANGED << cache, put_log, failed_in, now, requests, exchanges, r_vars >>

\* The break of line 259 dropped: the loop goes on after adopting.
AlternativePrices_KeepTrying(alt_code, alt_flight_prices) ==
    IF HasValidPrice(alt_flight_prices)
    THEN /\ s_departure_airport' = alt_code
         /\ s_flight_prices' = alt_flight_prices
         /\ s_alt' = s_alt + 1
         /\ s_pc' = "alternatives"
    ELSE /\ s_alt' = s_alt + 1
         /\ s_pc' = "alternatives"
         /\ UNCHANGED << s_departure_airport, s_flight_prices >>

\* Lines 253-259: adopt the alternative when it has a price, else go on.
AlternativePrices(alt_code, alt_flight_prices) ==
    IF HasValidPrice(alt_flight_prices)
    THEN /\ s_departure_airport' = alt_code
         /\ s_flight_prices' = alt_flight_prices
         /\ s_pc' = "score"
         /\ UNCHANGED s_alt
    ELSE /\ s_alt' = s_alt + 1
         /\ s_pc' = "alternatives"
         /\ UNCHANGED << s_departure_airport, s_flight_prices >>

S_ReturnAlternative ==
    /\ \/ /\ s_pc = "wait_alternative"
          /\ p_pc = "done"
          /\ AlternativePrices(p_departure_airport, PricesOfResponse(p_response))
          /\ s_calls' = Append(s_calls, PricerCall)
          /\ PricerReset
       \/ /\ s_pc = "alternative_failed"
          /\ AlternativePrices(StripUpper(s_alternatives[s_alt]), EmptyDict)
          /\ UNCHANGED s_calls
          /\ UNCHANGED p_handler
    /\ UNCHANGED << s_requested, s_alternatives, s_destinations, s_valid_prices,
                    s_response >>
    /\ UNCHANGED << cache, put_log, failed_in, now, requests, exchanges, r_vars >>

\* Lines 264-343: score every destination, sort, answer with the top 3.
S_Score ==
    /\ s_pc = "score"
    /\ LET scored_destinations == ScoreAll(s_destinations, s_flight_prices)
           top_3 == Take(SortByScore(scored_destinations), TOP_N)
       IN s_response' = Some([statusCode |-> 200,
                              departure_airport |-> s_departure_airport,
                              recommendations |-> top_3,
                              weights |-> [weather |-> WEATHER_WEIGHT,
                                           qol |-> QOL_WEIGHT,
                                           flight |-> FLIGHT_WEIGHT]])
    /\ s_pc' = "done"
    /\ UNCHANGED << s_departure_airport, s_requested, s_alternatives, s_destinations,
                    s_flight_prices, s_valid_prices, s_alt, s_calls >>
    /\ UNCHANGED << p_vars, r_vars >>

\* The client has its response; the handler's frame is gone.
S_Return ==
    /\ s_pc = "done"
    /\ s_pc' = "idle"
    /\ s_departure_airport' = ""
    /\ s_requested' = ""
    /\ s_alternatives' = << >>
    /\ s_destinations' = << >>
    /\ s_flight_prices' = EmptyDict
    /\ s_valid_prices' = FALSE
    /\ s_alt' = 0
    /\ s_calls' = << >>
    /\ s_response' = None
    /\ UNCHANGED << p_vars, r_vars >>

\* The pricer serving its clients over one price cache, as time passes.
Next ==
    \/ P_Receive
    \/ P_GetApiKeys
    \/ P_GetToken
    \/ P_Submit
    \/ \E i \in Units : P_Start(i)
    \/ \E i \in Units : P_CheckCache(i)
    \/ \E i \in Units : P_Search(i)
    \/ \E i \in Units : P_Store(i)
    \/ \E i \in Units : P_Collect(i)
    \/ P_Respond
    \/ P_Raise
    \/ P_Return
    \/ Tick

Spec == Init /\ [][Next]_vars

\* The scoring handler and the pricer invocations it makes.  The codes it
\* sends are the table's iata codes, strings all, so no unit of these
\* invocations raises and P_Raise has no part in them.
SNext ==
    \/ S_Receive
    \/ S_GetDestinations
    \/ S_InvokePrimary
    \/ S_ReturnPrimary
    \/ S_NextAlternative
    \/ S_ReturnAlternative
    \/ S_Score
    \/ S_Return
    \/ P_GetApiKeys
    \/ P_GetToken
    \/ P_Submit
    \/ \E i \in Units : P_Start(i)
    \/ \E i \in Units : P_CheckCache(i)
    \/ \E i \in Units : P_Search(i)
    \/ \E i \in Units : P_Store(i)
    \/ \E i \in Units : P_Collect(i)
    \/ P_Respond

SpecScoring == Init /\ [][SNext]_vars

\* The scoring handler over the tables of RankingTables.
RankingNext ==
    \/ S_ReceivePlain
    \/ S_GetRankedDestinations
    \/ S_InvokePrimary
    \/ S_ReturnPrimary
    \/ S_NextAlternative
    \/ S_ReturnAlternative
    \/ S_Score
    \/ S_Return
    \/ P_GetApiKeys
    \/ P_GetToken
    \/ P_Submit
    \/ \E i \in Units : P_Start(i)
    \/ \E i \in Units : P_CheckCache(i)
    \/ \E i \in Units : P_Search(i)
    \/ \E i \in Units : P_Store(i)
    \/ \E i \in Units : P_Collect(i)
    \/ P_Respond

SpecRanking == Init /\ [][RankingNext]_vars

\* One invocation of the pricer for LongRequest over a warm cache, up to its
\* response.  Every destination is a string with an unexpired entry, so no
\* unit raises and none goes on to the flight query.
InitPool == RInit /\ PInitWith(WarmCache) /\ SInit

PoolNext ==
    \/ P_ReceiveLong
    \/ P_GetApiKeys
    \/ P_GetToken
    \/ P_Submit
    \/ \E i \in Units : P_Start(i)
    \/ \E i \in Units : P_CheckCache(i)
    \/ \E i \in Units : P_Collect(i)
    \/ P_Respond

SpecPool == InitPool /\ [][PoolNext]_vars

\* Requests that meet on cache keys: LIS twice in one request from MAD (two
\* units read and write MAD|LIS side by side), and the reverse pair LIS|MAD.
CacheRequests ==
    { [departure_airport |-> "MAD", destinations |-> << "LIS", "lis " >>],
      [departure_airport |-> "LIS", destinations |-> << "MAD" >>] }

\* POST /flight-prices with one of CacheRequests.
P_ReceiveCached ==
    /\ Idle
    /\ requests < MaxRequests
    /\ requests' = requests + 1
    /\ exchanges' = 0
    /\ \E request \in CacheRequests :
         PricerBegin("client", request.departure_airport, request.destinations)
    /\ UNCHANGED << cache, put_log, failed_in, now >>
    /\ UNCHANGED << r_vars, s_vars >>

CacheNext ==
    \/ P_ReceiveCached
    \/ P_GetApiKeys
    \/ P_GetToken
    \/ P_Submit
    \/ \E i \in Units : P_Start(i)
    \/ \E i \in Units : P_CheckCache(i)
    \/ \E i \in Units : P_Search(i)
    \/ \E i \in Units : P_Store(i)
    \/ \E i \in Units : P_Collect(i)
    \/ P_Respond
    \/ P_Return
    \/ Tick

SpecCache == Init /\ [][CacheNext]_vars

\* The same requests, with the failed queries on record.
RefetchNext ==
    \/ P_ReceiveCached
    \/ P_GetApiKeys
    \/ P_GetToken
    \/ P_Submit
    \/ \E i \in Units : P_Start(i)
    \/ \E i \in Units : P_CheckCache(i)
    \/ \E i \in Units : P_SearchLogged(i)
    \/ \E i \in Units : P_Store(i)
    \/ \E i \in Units : P_Collect(i)
    \/ P_Respond
    \/ P_Return
    \/ Tick

SpecRefetch == Init /\ [][RefetchNext]_vars

\* The airport resolver, which shares nothing with the other two handlers.
SpecResolver == Init /\ [][RNext]_vars

\* A destinations table as it may be stored: nothing normalises the iata_code
\* of an item, here one in upper case and one in lower case with a blank.
StoredTable ==
    << DestinationsTable[1],
       [city_id |-> "lisbon", iata_code |-> "lis ", weather |-> Some(20),
        quality_of_life |-> None] >>

\* get_all_destinations (lines 220-221) over such a table.
S_GetStoredDestinations ==
    /\ s_pc = "destinations"
    /\ \E table \in { DestinationsTable, StoredTable } :
         s_destinations' = get_all_destinations(Some(table))
    /\ s_pc' = "primary"
    /\ UNCHANGED << s_departure_airport, s_requested, s_alternatives, s_flight_prices,
                    s_valid_prices, s_alt, s_calls, s_response >>
    /\ UNCHANGED << p_vars, r_vars >>

\* Scoring requests over the stored tables.
LookupNext ==
    \/ S_ReceivePlain
    \/ S_GetStoredDestinations
    \/ S_InvokePrimary
    \/ S_ReturnPrimary
    \/ S_NextAlternative
    \/ S_ReturnAlternative
    \/ S_Score
    \/ S_Return
    \/ P_GetApiKeys
    \/ P_GetToken
    \/ P_Submit
    \/ \E i \in Units : P_Start(i)
    \/ \E i \in Units : P_CheckCache(i)
    \/ \E i \in Units : P_Search(i)
    \/ \E i \in Units : P_Store(i)
    \/ \E i \in Units : P_Collect(i)
    \/ P_Respond

SpecLookup == Init /\ [][LookupNext]_vars

\* haversine_distance on its own: points of the region the dataset covers.
Latitudes == {38, 40, 42, 47, 50}
Longitudes == {-4, 0, 2, 12}

\* haversine_distance(lat1, lon1, lat2, lon2) measured from a to b, from b to
\* a and from a to itself.
H_Measure ==
    /\ \E lat1 \in Latitudes, lat2 \in Latitudes, lon1 \in Longitudes, lon2 \in Longitudes :
           h_measured' = Some([a |-> << lat1, lon1 >>,
                               b |-> << lat2, lon2 >>,
                               ab |-> haversine(lat1, lon1, lat2, lon2),
                               ba |-> haversine(lat2, lon2, lat1, lon1),
                               aa |-> haversine(lat1, lon1, lat1, lon1)])
    /\ UNCHANGED << r_pc, r_city, r_country, r_coords, r_secrets, r_access_token, r_remote,
                    r_airport_data, r_use_llm_fallback, r_response, r_calls >>
    /\ UNCHANGED << p_vars, s_vars >>

HaversineNext == H_Measure

SpecHaversine == Init /\ [][HaversineNext]_vars

\* The three handlers behind one gateway, one request at a time: resolution
\* requests, then pricing requests or a scoring request.  The resolver shares no
\* state with the other two, so its requests are served before theirs.
Untouched == Idle /\ requests = 0 /\ now = 0

SystemNext ==
    \/ Untouched /\ R_Receive
    \/ R_Geocode
    \/ R_GetApiKeys
    \/ R_GetToken
    \/ R_FindNearestAirport
    \/ R_Validate
    \/ R_Respond
    \/ R_Return
    \/ r_pc = "idle" /\ P_Receive
    \/ r_pc = "idle" /\ requests = 0 /\ S_Receive
    \/ S_GetDestinations
    \/ S_InvokePrimary
    \/ S_ReturnPrimary
    \/ S_NextAlternative
    \/ S_ReturnAlternative
    \/ S_Score
    \/ S_Return
    \/ P_GetApiKeys
    \/ P_GetToken
    \/ P_Submit
    \/ \E i \in Units : P_Start(i)
    \/ \E i \in Units : P_CheckCache(i)
    \/ \E i \in Units : P_Search(i)
    \/ \E i \in Units : P_Store(i)
    \/ \E i \in Units : P_Collect(i)
    \/ P_Respond
    \/ P_Raise
    \/ P_Return

SpecSystem == Init /\ [][SystemNext]_vars

(***************************************************************************)
(* Properties of the airport resolver (SpecResolver).                      *)
(***************************************************************************)
\* The local search of the running request.
LocalPrimary ==
    find_nearest_airport_local(Val(r_coords).latitude,
                               Val(r_coords).expected_country_code,
                               LOCAL_MAX_DISTANCE_KM)

ResolverStatus == Val(r_response).statusCode

TokenExchangeFailed == r_calls.token = 1 /\ ~TokenUsable(r_access_token)
RemoteQueryFailed == r_calls.airports = 1 /\ IsNone(r_remote)

\* C1: once geocoding (and the secret retrieval) succeeded, a failed token
\* exchange or a failed remote airport query does not fail the request: when
\* the local dataset has an airport within 500 km, the response is a success
\* whose primary is the local search's nearest airport.
C1_RemoteFailureIsNonFatal ==
    ( /\ r_pc = "done"
      /\ ~IsNone(r_coords)
      /\ SecretsUsable(r_secrets)
      /\ TokenExchangeFailed \/ RemoteQueryFailed
      /\ ~IsNone(LocalPrimary) )
    => /\ ResolverStatus = 200
       /\ Val(r_response).airport_code = Val(LocalPrimary).airport_code

\* The acceptability test as the specification words it.
SameIgnoringCase(a, b) == Upper(a) = Upper(b)

RemoteAcceptable ==
    /\ ~IsNone(r_remote)
    /\ Val(r_remote).distance_km <= 200
    /\ \/ Val(r_coords).expected_country_code = ""
       \/ SameIgnoringCase(Val(r_remote).country_code,
                           Val(r_coords).expected_country_code)

\* C2: once the remote query has been made and judged, the primary is the
\* remote top result if and only if that result is present, at most 200 km
\* away and of the expected country (ignoring case) or no country is expected;
\* otherwise the primary is the local search's result (an error when it has none).
C2_RemotePrimaryIffAcceptable ==
    (r_calls.airports = 1 /\ r_pc \in {"alternatives", "done"})
    => /\ RemoteAcceptable <=> (r_airport_data = r_remote /\ ~IsNone(r_remote))
       /\ RemoteAcceptable =>
            (r_pc = "done" =>
                /\ ResolverStatus = 200
                /\ Val(r_response).airport_code = Val(r_remote).airport_code)
       /\ ~RemoteAcceptable =>
            /\ r_airport_data = LocalPrimary
            /\ r_pc = "done" =>
                 IF IsNone(LocalPrimary) THEN ResolverStatus = 404
                 ELSE /\ ResolverStatus = 200
                      /\ Val(r_response).airport_code = Val(LocalPrimary).airport_code
                      /\ Val(r_response).airport_latitude = Val(LocalPrimary).latitude

\* A remote result 200 km away whose country code matches only when case is
\* ignored has become the primary.
C2_Witness ==
    /\ r_pc = "done"
    /\ ~IsNone(r_remote)
    /\ Val(r_remote).distance_km = 200
    /\ Val(r_remote).country_code = "es"
    /\ Val(r_remote).airport_code = "XRY"
    /\ Val(r_coords).expected_country_code = "ES"
    /\ ResolverStatus = 200
    /\ Val(r_response).airport_code = "XRY"

(***************************************************************************)
(* Properties of the scoring handler's fallback (SpecScoring).             *)
(***************************************************************************)
\* The codes the alternatives carry, in the order supplied, as the handler
\* reads them; an alternative without a code has none.
RECURSIVE AltCodes(_)
AltCodes(alternatives) ==
    IF alternatives = << >> THEN << >>
    ELSE (IF StripUpper(Head(alternatives)) = "" THEN << >>
          ELSE << StripUpper(Head(alternatives)) >>)
         \o AltCodes(Tail(alternatives))

ScoringAnswered == s_pc = "done" /\ Val(s_response).statusCode = 200

\* Every recommendation carries the price the map has for its code, and the
\* flight score of that price.
ScoredFrom(flight_prices) ==
    LET recommendations == Val(s_response).recommendations
    IN /\ recommendations = Take(SortByScore(ScoreAll(s_destinations, flight_prices)), TOP_N)
       /\ \A n \in 1..Len(recommendations) :
            /\ recommendations[n].details.flight_price =
                   DictGet(flight_prices, recommendations[n].iata_code)
            /\ recommendations[n].scores.flight_score =
                   Round3(calculate_flight_score(
                              DictGet(flight_prices, recommendations[n].iata_code)))

\* C3: when the price map of the requested airport has no price, the
\* alternatives are priced in the order supplied, none is priced after one
\* that has a price, and the first alternative with a price is the response's
\* departure_airport and the source of the prices scored; when none has a
\* price the requested airport stays.
C3_FirstPricedAlternativeIsAdopted ==
    (ScoringAnswered /\ ~HasValidPrice(s_calls[1].flight_prices)) =>
        LET alts == AltCodes(s_alternatives)
            tried == Len(s_calls) - 1
            last == s_calls[Len(s_calls)]
        IN /\ tried <= Len(alts)
           /\ \A k \in 1..tried : s_calls[k + 1].airport = alts[k]
           /\ \A k \in 1..(tried - 1) : ~HasValidPrice(s_calls[k + 1].flight_prices)
           /\ IF tried > 0 /\ HasValidPrice(last.flight_prices)
              THEN /\ Val(s_response).departure_airport = last.airport
                   /\ ScoredFrom(last.flight_prices)
              ELSE /\ tried = Len(alts)
                   /\ Val(s_response).departure_airport = s_requested
                   /\ ScoredFrom(s_calls[1].flight_prices)

\* The requested airport and the first coded alternative had no price, the
\* second coded alternative had one and is the origin of the response.
C3_Witness ==
    /\ ScoringAnswered
    /\ s_requested = "MAD"
    /\ s_alternatives = << "", "bcn", "LIS" >>
    /\ Len(s_calls) = 3
    /\ ~HasValidPrice(s_calls[1].flight_prices)
    /\ s_calls[2].airport = "BCN"
    /\ ~HasValidPrice(s_calls[2].flight_prices)
    /\ s_calls[3].airport = "LIS"
    /\ HasValidPrice(s_calls[3].flight_prices)
    /\ Val(s_response).departure_airport = "LIS"
    /\ \E n \in 1..Len(Val(s_response).recommendations) :
         Val(s_response).recommendations[n].details.flight_price = Some(145)

(***************************************************************************)
(* Properties of the pricer (Spec).                                        *)
(***************************************************************************)
PricerStatus == Val(p_response).statusCode

\* The fan-out has been made and the handler has its response.
FetchAllDone == p_pc = "done" /\ p_units # << >>

\* The flight query of unit i was made and gave no price: the request failed
\* or timed out, no offer came back, or the reply was malformed.
QueryFailed(i) ==
    /\ p_units[i].queried
    /\ LET reply == Val(p_units[i].reply)
       IN \/ ~reply.ok
          \/ reply.data = << >>
          \/ \A k \in 1..Len(reply.data) : ~reply.data[k].has_total
          \/ \E k \in 1..Len(reply.data) :
                 reply.data[k].has_total /\ ~reply.data[k].numeric

\* Unit i failed: its flight query gave no price, or its worker raised.
UnitFailed(i) == QueryFailed(i) \/ p_units[i].raised

\* What unit i's own cache lookup or flight query produced.
OwnPrice(i) ==
    IF ~IsNone(p_units[i].cached_price) THEN p_units[i].cached_price
    ELSE p_units[i].price

\* C4: when a destination's unit fails (its flight query gives no price, or
\* its worker raises), the call as a whole still answers with a success, the
\* failed destination is absent (None) in the mapping, and every other
\* destination has the price its own cache lookup or flight query produced.
C4_FailureIsPerDestination ==
    (FetchAllDone /\ \E i \in Units : UnitFailed(i)) =>
        /\ PricerStatus = 200
        /\ \A i \in Units :
             IF UnitFailed(i)
             THEN IsString(p_units[i].raw) =>
                      DictGet(Val(p_response).flight_prices,
                              StripUpper(p_units[i].raw)) = None
             ELSE /\ p_units[i].code \in DOMAIN Val(p_response).flight_prices
                  /\ Val(p_response).flight_prices[p_units[i].code] = OwnPrice(i)

\* The half of C4 the code keeps: a flight query that gives no price leaves
\* the other destinations their own prices, when no worker raises.
C4_QueryFailureIsPerDestination ==
    (FetchAllDone /\ \A i \in Units : ~p_units[i].raised) =>
        /\ PricerStatus = 200
        /\ \A i \in Units :
             /\ p_units[i].code \in DOMAIN Val(p_response).flight_prices
             /\ Val(p_response).flight_prices[p_units[i].code] =
                    (IF QueryFailed(i) THEN None ELSE OwnPrice(i))

\* The table's item under the key of unit i (None: no item).
ItemOf(i) == cache[CacheKey(p_departure_airport, StripUpper(p_units[i].raw))]

\* The item's expiry time has passed.
Expired(item) == ~IsNone(item) /\ Val(item).ttl < now

\* The step in which unit i makes its cache lookup.
GetStep(i) ==
    /\ i \in DOMAIN p_units
    /\ IsString(p_units[i].raw)
    /\ p_units[i].st = "check"
    /\ p_units'[i].st # "check"

\* C5: a cache lookup changes no stored entry, and the lookup of a key whose
\* entry's expiry time has passed is a miss (no cached price, the unit goes on
\* to the flight query) that leaves the expired entry in the store.
C5_PassiveExpiry ==
    [][ \A i \in 1..Len(p_destinations) :
          GetStep(i) =>
             /\ cache' = cache
             /\ Expired(ItemOf(i)) =>
                  /\ IsNone(p_units'[i].cached_price)
                  /\ p_units'[i].st = "search"
                  /\ cache'[CacheKey(p_departure_airport, p_units'[i].code)] = ItemOf(i) ]_vars

\* A unit has looked up a key whose entry expired, found nothing, and the
\* expired entry is still in the store.
C5_Witness ==
    \E i \in Units :
        /\ IsString(p_units[i].raw)
        /\ p_units[i].st = "search"
        /\ IsNone(p_units[i].cached_price)
        /\ Expired(ItemOf(i))

\* Unit i's lookup was a hit.
Hit(i) == ~IsNone(p_units[i].cached_price)

\* The cache as the request found it: no entry changes before the fan-out.
CacheFound == IF p_units = << >> THEN cache ELSE p_cache_at_start

\* The entry the request found for its i-th destination.
FoundFor(i) == CacheFound[CacheKey(p_departure_airport, StripUpper(p_destinations[i]))]

\* The request found an unexpired entry for every one of its destinations.
AllUnexpired ==
    \A i \in 1..Len(p_destinations) :
        /\ IsString(p_destinations[i])
        /\ ~IsNone(FoundFor(i))
        /\ Val(FoundFor(i)).ttl > now

TotalsOf(i) ==
    LET data == Val(p_units[i].reply).data
    IN { data[k].total : k \in { n \in 1..Len(data) : data[n].has_total } }

\* Unit i has returned a price its flight query fetched.
ReturnedFresh(i) ==
    /\ p_units[i].st \in {"finished", "collected"}
    /\ p_units[i].queried
    /\ ~IsNone(p_units[i].result)

C9_OneTokenSharedByAllQueries ==
    /\ p_exchanges <= 1
    /\ p_pc \in {"idle", "secrets", "token"} => p_exchanges = 0
    /\ p_units # << >> =>
         /\ p_exchanges = 1
         /\ ~IsNone(p_access_token)
         /\ \A i \in Units :
              /\ p_units[i].queried => p_units[i].token = p_access_token
              /\ \A j \in Units :
                   (p_units[i].queried /\ p_units[j].queried) =>
                       p_units[i].token = p_units[j].token

\* Both destinations of a request were queried, after one exchange.
C9_Witness ==
    /\ Len(p_units) = 2
    /\ \A i \in Units : p_units[i].queried /\ p_units[i].token = p_access_token
    /\ p_exchanges = 1

\* The price the inputs fix for the i-th destination: the cache as the request
\* found it, and the flight API's reply for that destination.
PriceFixedFor(i) ==
    LET found == check_flight_cache(FoundFor(i), now)
    IN IF ~IsNone(found) THEN found
       ELSE search_flight_price(Val(p_units[i].reply))

\* The units as_completed has handed over.
CollectedUnits == { i \in Units : p_units[i].st = "collected" }

C8_OneExchangePerScoringRequest ==
    /\ exchanges <= 1
    /\ (s_pc = "done" /\ \E k \in 1..Len(s_calls) : s_calls[k].statusCode = 200)
           => exchanges = 1

\* What the code keeps of C8: each invocation of the pricer makes at most one
\* exchange of its own, and the request as many as its invocations made.
RECURSIVE ExchangesOf(_)
ExchangesOf(calls) ==
    IF calls = << >> THEN 0 ELSE Head(calls).exchanges + ExchangesOf(Tail(calls))

C8_OneExchangePerInvocation ==
    /\ p_exchanges <= 1
    /\ \A k \in 1..Len(s_calls) : s_calls[k].exchanges <= 1
    /\ s_pc # "idle" => exchanges = ExchangesOf(s_calls) + p_exchanges

(***************************************************************************)
(* The worker pool of the pricer (SpecPool).                               *)
(***************************************************************************)
\* C11: at every moment of an invocation at most 10 units are running (the
\* flight queries in flight are among the running units), although the
\* request has more than 10 destinations, and units run only while the pool
\* is open.
C11_AtMostTenUnitsRun ==
    /\ Cardinality(Running) <= 10
    /\ Running # {} => PoolOpen

\* Ten units of an eleven-destination request run, the eleventh waits.
C11_Witness ==
    /\ Len(p_units) = 11
    /\ Cardinality(Running) = 10
    /\ p_units[11].st = "queued"

(***************************************************************************)
(* Failures downstream of the scoring request's input (SpecScoring).       *)
(***************************************************************************)
\* C12: a scoring request that supplied a departure airport is never answered
\* with an error: whatever fails downstream (the destinations table, the
\* pricer, its secrets or its token), the response is a success with a ranking.
C12_DownstreamFailuresAreAbsorbed ==
    (s_pc = "done" /\ s_requested # "") =>
        /\ Val(s_response).statusCode = 200
        /\ Val(s_response).recommendations # << >>

\* What the code keeps of C12: once the destinations table gave at least one
\* destination, the response is a success with a ranking.
C12_PricerFailuresAreAbsorbed ==
    (s_pc = "done" /\ s_requested # "" /\ s_destinations # << >>) =>
        /\ Val(s_response).statusCode = 200
        /\ Len(Val(s_response).recommendations) = Min2(TOP_N, Len(s_destinations))

\* No call for prices, for the requested airport or an alternative, gave a price.
NoPriceAnywhere ==
    /\ s_calls # << >>
    /\ \A k \in 1..Len(s_calls) : ~HasValidPrice(s_calls[k].flight_prices)

\* C13: when neither the requested airport nor any alternative gives a price,
\* the response is still a success with a ranking, every destination in it has
\* no flight price and the flight score 0.3, and the departure_airport is the
\* one requested.
C13_NoPricesStillRanks ==
    (s_pc = "done" /\ NoPriceAnywhere) =>
        /\ Val(s_response).statusCode = 200
        /\ Val(s_response).departure_airport = s_requested
        /\ Len(s_calls) = 1 + Len(AltCodes(s_alternatives))
        /\ Len(Val(s_response).recommendations) = Min2(TOP_N, Len(s_destinations))
        /\ \A n \in 1..Len(Val(s_response).recommendations) :
             /\ Val(s_response).recommendations[n].details.flight_price = None
             /\ Val(s_response).recommendations[n].scores.flight_score = 300

\* MAD and the alternatives BCN and LIS were priced, none had a price, and the
\* response ranks three destinations from MAD.
C13_Witness ==
    /\ s_pc = "done"
    /\ NoPriceAnywhere
    /\ Len(s_calls) = 3
    /\ s_calls[3].airport = "LIS"
    /\ Val(s_response).departure_airport = "MAD"
    /\ Len(Val(s_response).recommendations) = 3
    /\ Val(s_response).recommendations[1].scores.flight_score = 300

(***************************************************************************)
(* Properties of the resolver's tiers and of the local search              *)
(* (SpecResolver).                                                         *)
(***************************************************************************)
QueryLat == Val(r_coords).latitude
ExpectedCountry == Val(r_coords).expected_country_code

\* The remote tier was asked and its top result passed the acceptability test.
Tier1Acceptable == r_calls.airports = 1 /\ RemoteAcceptable

\* The airports of the dataset at most 500 km from the query point.
WithinRadius ==
    { n \in 1..Len(AIRPORTS_DATA) : haversine_distance(QueryLat, AIRPORTS_DATA[n].lat) <= 500 }

ResolutionDone == r_pc = "done" /\ ~IsNone(r_coords) /\ SecretsUsable(r_secrets)

\* C14: once the city is geocoded (and the secrets are read), the resolution
\* ends in an error exactly when tier 1 gave no acceptable result and no
\* airport of the dataset lies within 500 km; an acceptable tier-1 result
\* gives a success even without any local airport, with no alternatives.
C14_UnresolvableIffBothTiersFail ==
    ResolutionDone =>
        /\ ResolverStatus # 200 <=> (~Tier1Acceptable /\ WithinRadius = {})
        /\ (Tier1Acceptable /\ WithinRadius = {}) =>
               /\ ResolverStatus = 200
               /\ Val(r_response).alternatives = << >>

\* What the code keeps of C14: the same, for the requests whose token
\* exchange succeeded.
C14_UnresolvableAfterTokenExchange ==
    (ResolutionDone /\ TokenUsable(r_access_token)) =>
        /\ ResolverStatus # 200 <=> (~Tier1Acceptable /\ WithinRadius = {})
        /\ ResolverStatus # 200 => ResolverStatus = 404
        /\ (Tier1Acceptable /\ WithinRadius = {}) =>
               /\ ResolverStatus = 200
               /\ Val(r_response).alternatives = << >>

\* The weighted distance as the specification words it.
WeightedDistance(n) ==
    LET distance == haversine_distance(QueryLat, AIRPORTS_DATA[n].lat)
    IN IF ExpectedCountry # "" /\ AIRPORTS_DATA[n].country # ExpectedCountry
       THEN distance * 2 ELSE distance

LocalSearchGavePrimary == r_pc \in {"alternatives", "done"} /\ r_use_llm_fallback

\* C15: when the local search supplies the primary, it is an airport of the
\* dataset at most 500 km away whose weighted distance (distance x 2 for an
\* airport outside a provided expected country, distance otherwise) is the
\* least among the airports at most 500 km away; there is none when no
\* airport is that close.
C15_PrimaryHasLeastWeightedDistance ==
    LocalSearchGavePrimary =>
        IF WithinRadius = {} THEN IsNone(r_airport_data)
        ELSE /\ ~IsNone(r_airport_data)
             /\ \E n \in WithinRadius :
                  /\ AIRPORTS_DATA[n].iata = Val(r_airport_data).airport_code
                  /\ Val(r_airport_data).distance_km =
                         haversine_distance(QueryLat, AIRPORTS_DATA[n].lat)
                  /\ \A m \in WithinRadius : WeightedDistance(n) <= WeightedDistance(m)

\* BCN (expected country, 111 km) is preferred to TLS and OPO (111 km, other
\* countries), which come before it in the dataset.
C15_Witness ==
    /\ r_pc = "done"
    /\ ~IsNone(r_coords)
    /\ r_use_llm_fallback
    /\ QueryLat = 42
    /\ ExpectedCountry = "ES"
    /\ ResolverStatus = 200
    /\ Val(r_response).airport_code = "BCN"

LocalSearchRan == r_calls.local >= 1 /\ ~IsNone(r_coords)

Ranking == SortedCandidates(QueryLat, ExpectedCountry, LOCAL_MAX_DISTANCE_KM)

\* C16: in the ranking of the local search, for an airport A of the expected
\* country and an airport B of another country, both at most 500 km away,
\* with B at least as far as A: A's weighted distance is at most B's, and B
\* does not come ahead of A with a smaller weighted distance.
C16_TieBreakInvariant ==
    LocalSearchRan =>
        \A a, b \in 1..Len(Ranking) :
            ( /\ ExpectedCountry # ""
              /\ Ranking[a].country_code = ExpectedCountry
              /\ Ranking[b].country_code # ExpectedCountry
              /\ Ranking[b].distance_km >= Ranking[a].distance_km )
            => /\ Ranking[a].weighted_distance <= Ranking[b].weighted_distance
               /\ b < a => Ranking[b].weighted_distance = Ranking[a].weighted_distance
               /\ Ranking[a].distance_km > 0 => a < b

\* With a remote primary the alternatives are the head of the ranking: BCN
\* (ES, 111 km) leads and TLS (FR, 111 km) follows MAD (ES, 222 km).
C16_Witness ==
    /\ r_pc = "done"
    /\ ~IsNone(r_coords)
    /\ QueryLat = 42
    /\ ExpectedCountry = "ES"
    /\ ResolverStatus = 200
    /\ Val(r_response).airport_code = "XRY"
    /\ Len(Val(r_response).alternatives) = 3
    /\ Val(r_response).alternatives[1].airport_code = "BCN"
    /\ Val(r_response).alternatives[3].airport_code = "TLS"

\* The positions, among the first 5 of the ranking, of the airports other
\* than the primary.
OtherThanPrimary ==
    { n \in 1..Min2(5, Len(Ranking)) :
        Ranking[n].airport_code # Val(r_response).airport_code }

KthOther(k) ==
    CHOOSE n \in OtherThanPrimary :
        Cardinality({ m \in OtherThanPrimary : m < n }) = k - 1

\* C17: in every successful response, the alternatives are the first 3, in
\* ranking order, of the local search's best 5 airports whose code is not the
\* primary's: at most 3, none with the primary's code.
C17_AlternativesFromTopFive ==
    (r_pc = "done" /\ ~IsNone(r_coords) /\ ResolverStatus = 200) =>
        LET alts == Val(r_response).alternatives
        IN /\ Len(alts) = Min2(3, Cardinality(OtherThanPrimary))
           /\ Len(alts) <= 3
           /\ \A k \in 1..Len(alts) :
                /\ alts[k].airport_code # Val(r_response).airport_code
                /\ alts[k].airport_code = Ranking[KthOther(k)].airport_code
                /\ alts[k].distance_km = Ranking[KthOther(k)].distance_km

\* A local primary that heads the best 5: the three after it are returned.
C17_Witness ==
    /\ r_pc = "done"
    /\ ~IsNone(r_coords)
    /\ r_use_llm_fallback
    /\ QueryLat = 42
    /\ ExpectedCountry = "ES"
    /\ ResolverStatus = 200
    /\ Val(r_response).airport_code = "BCN"
    /\ Len(Val(r_response).alternatives) = 3
    /\ Val(r_response).alternatives[3].airport_code = "OPO"

\* C18 as stated: the distance_km values of the alternatives never decrease
\* along the list.
C18_AlternativesNearestFirst ==
    (r_pc = "done" /\ ~IsNone(r_coords) /\ ResolverStatus = 200) =>
        LET alts == Val(r_response).alternatives
        IN \A k \in 1..(Len(alts) - 1) : alts[k].distance_km <= alts[k + 1].distance_km

DatasetIndex(code) == CHOOSE n \in 1..Len(AIRPORTS_DATA) : AIRPORTS_DATA[n].iata = code

\* C18: the alternatives are in ranking order: their weighted distances never
\* decrease along the list, and their distance_km values never decrease when
\* no country is expected.
C18_AlternativesByWeightedDistance ==
    (r_pc = "done" /\ ~IsNone(r_coords) /\ ResolverStatus = 200) =>
        LET alts == Val(r_response).alternatives
        IN \A k \in 1..(Len(alts) - 1) :
             /\ WeightedDistance(DatasetIndex(alts[k].airport_code))
                    <= WeightedDistance(DatasetIndex(alts[k + 1].airport_code))
             /\ ExpectedCountry = "" => alts[k].distance_km <= alts[k + 1].distance_km

\* MAD (ES, 222 km) is listed before TLS (FR, 111 km).
C18_Witness ==
    /\ r_pc = "done"
    /\ ~IsNone(r_coords)
    /\ ExpectedCountry = "ES"
    /\ ResolverStatus = 200
    /\ Len(Val(r_response).alternatives) >= 2
    /\ Val(r_response).alternatives[1].airport_code = "MAD"
    /\ Val(r_response).alternatives[1].distance_km = 222
    /\ Val(r_response).alternatives[2].airport_code = "TLS"
    /\ Val(r_response).alternatives[2].distance_km = 111

\* The remote top result is farther than 200 km, and its distance is the
\* great-circle distance from the query point to where the API places it.
RemoteTooFar ==
    /\ r_calls.airports = 1
    /\ ~IsNone(r_remote)
    /\ Val(r_remote).distance_km > 200
    /\ Val(r_remote).distance_km = haversine_distance(QueryLat, Val(r_remote).latitude)

\* C19: when the remote top result is farther than 200 km, it is rejected,
\* the local search supplies the primary, and a primary that is returned is
\* another airport than the rejected one, at most 500 km away.
C19_FallbackReturnsDifferentAirport ==
    (r_pc = "done" /\ RemoteTooFar) =>
        /\ r_use_llm_fallback
        /\ r_airport_data = LocalPrimary
        /\ ResolverStatus = 200 =>
             /\ Val(r_response).airport_code # Val(r_remote).airport_code
             /\ Val(r_airport_data).distance_km <= 500

\* What the code keeps of C19: the rejection, the fallback and the radius.
C19_FallbackWithinRadius ==
    (r_pc = "done" /\ RemoteTooFar) =>
        /\ r_use_llm_fallback
        /\ r_airport_data = LocalPrimary
        /\ ResolverStatus = 200 =>
             /\ Val(r_response).airport_code = Val(LocalPrimary).airport_code
             /\ Val(r_airport_data).distance_km <= 500
        /\ ResolverStatus # 200 => WithinRadius = {}

GeocodingFailed == r_calls.geocode >= 1 /\ IsNone(r_coords)

\* C20: after a failed geocoding the request is over with an error response:
\* the geocoder was called once, and the secrets, the token endpoint, the
\* remote airport API and the local search were not called.
C20_GeocodeFailureAborts ==
    /\ r_calls.geocode <= 1
    /\ GeocodingFailed =>
         /\ r_pc = "done"
         /\ ResolverStatus = 404
         /\ r_calls = [NoCalls EXCEPT !.geocode = 1]

C20_Witness ==
    /\ r_pc = "done"
    /\ GeocodingFailed
    /\ r_city = "Madrid"
    /\ ResolverStatus = 404

(***************************************************************************)
(* Properties of the price cache (SpecCache): store_flight_cache is the    *)
(* put, check_flight_cache the get.  get_item and put_item each act on one *)
(* whole item of the table, and are one step each.                         *)
(***************************************************************************)
\* The directed pair unit i reads and writes.
PairOf(i) == << p_departure_airport, StripUpper(p_units[i].raw) >>

\* The most recent put for a pair.
LastPut(k) == put_log[k][Len(put_log[k])]

\* The step in which unit i makes its put.
PutStep(i) ==
    /\ i \in DOMAIN p_units
    /\ p_units[i].st = "store"
    /\ p_units'[i].st # "store"

EntriesHoldLastPut ==
    \A k \in CacheKeys :
        IF put_log[k] = << >> THEN IsNone(cache[k])
        ELSE /\ ~IsNone(cache[k])
             /\ DOMAIN Val(cache[k]) = {"price", "ttl"}
             /\ ToFloat(Val(cache[k]).price) = LastPut(k).price
             /\ Val(cache[k]).ttl = LastPut(k).at + 24

C23_GetSeesOnePut ==
    [][ \A i \in 1..Len(p_destinations) :
          GetStep(i) =>
             \/ IsNone(p_units'[i].cached_price)
             \/ \E n \in 1..Len(put_log[PairOf(i)]) :
                  LET put == put_log[PairOf(i)][n]
                      item == Val(cache[PairOf(i)])
                  IN /\ p_units'[i].cached_price = Some(put.price)
                     /\ ToFloat(item.price) = put.price
                     /\ item.ttl = put.at + 24 ]_vars

\* Two units of one request work on MAD|LIS side by side: one has put the
\* price it fetched, the other's get came after that put and returned it.
C23_Witness ==
    /\ p_pc = "running"
    /\ Len(p_units) = 2
    /\ PairOf(1) = PairOf(2)
    /\ \E i, j \in Units :
         /\ i # j
         /\ p_units[i].st = "finished"
         /\ p_units[i].stored
         /\ p_units[j].st = "finished"
         /\ ~p_units[j].queried
         /\ p_units[j].cached_price = p_units[i].price
         /\ Len(put_log[PairOf(i)]) = 2

\* C24: a put for a pair changes the entry of no other pair, so it changes
\* the result of a get for no other pair, the reversed pair included.
C24_PutTouchesItsPairOnly ==
    [][ \A i \in 1..Len(p_destinations) :
          PutStep(i) =>
             \A k \in CacheKeys \ { << p_departure_airport, p_units[i].code >> } :
                /\ cache'[k] = cache[k]
                /\ check_flight_cache(cache'[k], now) = check_flight_cache(cache[k], now) ]_vars

\* With an unexpired entry for MAD|LIS in the cache, the get for LIS|MAD was
\* a miss.
C24_Witness ==
    /\ p_departure_airport = "LIS"
    /\ put_log[<< "MAD", "LIS" >>] # << >>
    /\ now < LastPut(<< "MAD", "LIS" >>).at + 24
    /\ put_log[<< "LIS", "MAD" >>] = << >>
    /\ \E i \in Units :
         /\ p_units[i].code = "MAD"
         /\ p_units[i].st = "search"
         /\ IsNone(p_units[i].cached_price)

(***************************************************************************)
(* Properties of the scores and of the ranking (SpecRanking).  Reported    *)
(* scores are in thousandths.                                              *)
(***************************************************************************)
Ranked == s_pc = "done" /\ Val(s_response).statusCode = 200

Recommendations == Val(s_response).recommendations

\* Where the destinations table holds a city.
IndexOfCity(city_id) ==
    CHOOSE i \in 1..Len(s_destinations) : s_destinations[i].city_id = city_id

\* The scores the response would report for the i-th destination of the table.
ReportedScores(i) == ScoredDestination(s_destinations[i], s_flight_prices).scores

\* C25: the recommendations are min(3, n) of the n destinations, each with its
\* own scores, in non-increasing order of total_score, equal totals in table
\* order; no destination left out has a higher total than the last one
\* listed, nor an equal total and an earlier place in the table.
C25_TopThreeByTotalStable ==
    Ranked =>
        LET n == Len(s_destinations)
            recs == Recommendations
            at(k) == IndexOfCity(recs[k].city_id)
        IN /\ Len(recs) = Min2(3, n)
           /\ \A k \in 1..Len(recs) :
                /\ \E i \in 1..n : s_destinations[i].city_id = recs[k].city_id
                /\ recs[k].scores = ReportedScores(at(k))
           /\ \A k \in 1..(Len(recs) - 1) :
                /\ recs[k].scores.total_score >= recs[k + 1].scores.total_score
                /\ recs[k].scores.total_score = recs[k + 1].scores.total_score
                       => at(k) < at(k + 1)
           /\ \A i \in 1..n :
                (\A k \in 1..Len(recs) : at(k) # i) =>
                    LET last == recs[Len(recs)]
                    IN /\ ReportedScores(i).total_score <= last.scores.total_score
                       /\ ReportedScores(i).total_score = last.scores.total_score
                              => at(Len(recs)) < i

\* Four destinations, three listed: m1 and m0 share the reported total 0.572
\* and are listed in table order, m1 first; tie1 (0.42) is left out.
C25_Witness ==
    /\ Ranked
    /\ Len(s_destinations) = 4
    /\ s_destinations[1].city_id = "tie1"
    /\ s_destinations[2].city_id = "m1"
    /\ s_destinations[3].city_id = "fog"
    /\ s_destinations[4].city_id = "m0"
    /\ Len(Recommendations) = 3
    /\ Recommendations[1].city_id = "m1"
    /\ Recommendations[2].city_id = "m0"
    /\ Recommendations[1].scores.total_score = Recommendations[2].scores.total_score

InUnit(score) == 0 <= score /\ score <= 1000

\* C26: every score of every recommendation lies in [0, 1].
C26_ScoresInUnitInterval ==
    Ranked =>
        \A k \in 1..Len(Recommendations) :
            /\ InUnit(Recommendations[k].scores.weather_score)
            /\ InUnit(Recommendations[k].scores.qol_score)
            /\ InUnit(Recommendations[k].scores.flight_score)
            /\ InUnit(Recommendations[k].scores.total_score)

\* The attributes of a record are within the ranges the scores are made for.
QolInRange(quality_of_life) ==
    IsNone(quality_of_life) \/
    LET q == Val(quality_of_life)
    IN /\ 30 <= OrDefault(q.beer_price_eur, 65)
       /\ 0 <= OrDefault(q.michelin_restaurants, 20)
       /\ \A v \in { OrDefault(q.food_quality_score, 70), OrDefault(q.walkability_score, 70),
                     OrDefault(q.public_transport_score, 70), OrDefault(q.safety_score, 70) } :
            0 <= v /\ v <= 100

\* What the code keeps of C26: the weather and flight scores are in [0, 1]
\* for every record, the other two for records whose quality-of-life
\* attributes are within their ranges.
C26_ClampedComponents ==
    Ranked =>
        \A k \in 1..Len(Recommendations) :
            /\ InUnit(Recommendations[k].scores.weather_score)
            /\ InUnit(Recommendations[k].scores.flight_score)
            /\ QolInRange(Recommendations[k].details.quality_of_life) =>
                 /\ InUnit(Recommendations[k].scores.qol_score)
                 /\ InUnit(Recommendations[k].scores.total_score)

\* C27: the six quality-of-life weights add up to 1, the three weights of the
\* total add up to 1, and a ranked response reports 0.30, 0.30 and 0.40.
C27_WeightsSumToOne ==
    /\ QOL_WEIGHTS.beer_price + QOL_WEIGHTS.michelin_restaurants
         + QOL_WEIGHTS.food_quality + QOL_WEIGHTS.walkability
         + QOL_WEIGHTS.public_transport + QOL_WEIGHTS.safety = 100
    /\ DOMAIN QOL_WEIGHTS = {"beer_price", "michelin_restaurants", "food_quality",
                             "walkability", "public_transport", "safety"}
    /\ WEATHER_WEIGHT + QOL_WEIGHT + FLIGHT_WEIGHT = 100
    /\ Ranked => Val(s_response).weights = [weather |-> 30, qol |-> 30, flight |-> 40]

C27_Witness ==
    /\ Ranked
    /\ Len(Recommendations) = 3
    /\ Val(s_response).weights.flight = 40

\* C28: a request with a departure airport over a table with records is
\* answered 200 with min(3, n) recommendations; a recommendation without
\* weather data has weather score 0.5, one without quality-of-life data has
\* quality-of-life score 0.5, and one whose quality-of-life data lack a field
\* is scored with the field's default (m0: 0.54 with michelin_restaurants 0
\* and the defaults 6.5 and 7.0 for the other five).
C28_MissingDataIsScoredNeutral ==
    /\ (s_pc = "done" /\ s_requested # "" /\ s_destinations # << >>) =>
           /\ Val(s_response).statusCode = 200
           /\ Len(Recommendations) = Min2(3, Len(s_destinations))
    /\ Ranked =>
           \A k \in 1..Len(Recommendations) :
               LET rec == Recommendations[k]
               IN /\ IsNone(rec.details.avg_temperature) => rec.scores.weather_score = 500
                  /\ IsNone(rec.details.quality_of_life) => rec.scores.qol_score = 500
                  /\ rec.city_id = "m0" => rec.scores.qol_score = 540

\* tie1 has neither, fog no weather, m0 five quality-of-life fields missing;
\* all three are ranked.
C28_Witness ==
    /\ Ranked
    /\ Len(Recommendations) = 3
    /\ \E k \in 1..3 : /\ Recommendations[k].city_id = "tie1"
                       /\ Recommendations[k].scores.weather_score = 500
                       /\ Recommendations[k].scores.qol_score = 500
    /\ \E k \in 1..3 : /\ Recommendations[k].city_id = "fog"
                       /\ Recommendations[k].scores.weather_score = 500
    /\ \E k \in 1..3 : /\ Recommendations[k].city_id = "m0"
                       /\ Recommendations[k].scores.qol_score = 540

(***************************************************************************)
(* Properties of the three handlers together (SpecSystem).                 *)
(***************************************************************************)
InputError(response) == ~IsNone(response) /\ Val(response).statusCode = 400

\* The pricer's invocation has called nothing: no secret read, no token
\* exchange, no unit submitted (so no cache lookup and no flight query).
PricerCalledNothing ==
    /\ IsNone(p_secrets)
    /\ p_exchanges = 0
    /\ IsNone(p_access_token)
    /\ p_units = << >>

\* C29: the step that takes a request in decides on its required fields: with
\* an empty one (after strip) the response is the 400 at once, with nothing
\* called and no stored price changed; otherwise the handler goes on to its
\* first call.  A handler that answered 400 has called nothing.
C29_EmptyFieldIsRejectedAtOnce ==
    [][ /\ (r_pc = "idle" /\ r_pc' # "idle") =>
              IF r_city' = "" \/ r_country' = ""
              THEN /\ r_pc' = "done"
                   /\ InputError(r_response')
                   /\ r_calls' = NoCalls
              ELSE r_pc' = "geocode" /\ IsNone(r_response')
        /\ (p_pc = "idle" /\ p_pc' # "idle") =>
              IF p_departure_airport' = "" \/ p_destinations' = << >>
              THEN /\ p_pc' = "done"
                   /\ InputError(p_response')
                   /\ PricerCalledNothing'
                   /\ cache' = cache
              ELSE p_pc' = "secrets" /\ IsNone(p_response')
        /\ (s_pc = "idle" /\ s_pc' # "idle") =>
              IF s_requested' = ""
              THEN /\ s_pc' = "done"
                   /\ InputError(s_response')
                   /\ s_destinations' = << >>
                   /\ s_calls' = << >>
                   /\ p_pc' = "idle"
                   /\ cache' = cache
              ELSE s_pc' = "destinations" /\ IsNone(s_response')
        /\ InputError(r_response') => r_calls' = NoCalls
        /\ InputError(p_response') => PricerCalledNothing'
        /\ InputError(s_response') => s_calls' = << >> /\ s_destinations' = << >> ]_vars

\* A resolution request whose city is empty after strip, answered 400 with no
\* collaborator called.
C29_Witness ==
    /\ r_pc = "done"
    /\ r_city = ""
    /\ r_country = "Spain"
    /\ InputError(r_response)
    /\ r_calls = NoCalls

\* C30: a resolution calls the geocoder, the token endpoint and the remote
\* airport API at most once each; a unit of a fetchAll makes its flight
\* query only if it has made none, and is past the query after making it,
\* whatever the reply.
C30_NoUpstreamIsRetried ==
    [][ /\ r_calls'.geocode <= 1
        /\ r_calls'.token <= 1
        /\ r_calls'.airports <= 1
        /\ \A i \in 1..Len(p_units) :
             (p_units[i].st = "search" /\ p_units' # p_units /\ Len(p_units') = Len(p_units)
              /\ p_units'[i] # p_units[i])
             => /\ ~p_units[i].queried
                /\ p_units'[i].queried
                /\ p_units'[i].st # "search" ]_vars

\* A fetchAll is over: the query for one destination failed, was not repeated
\* and the destination has no price.
C30_Witness ==
    /\ p_pc = "done"
    /\ PricerStatus = 200
    /\ \E i \in Units :
         /\ p_units[i].queried
         /\ p_units[i].reply = Some(FlightError)
         /\ IsNone(p_units[i].result)
         /\ IsNone(Val(p_response).flight_prices[p_units[i].code])

(***************************************************************************)
(* haversine_distance                                                      *)
(***************************************************************************)
Measured == ~IsNone(h_measured)

\* C31: haversine_distance is symmetric and zero on identical points: for
\* all points a and b, the distance from a to b equals the distance from b
\* to a, and the distance from a to a is 0.
C31_HaversineSymmetricAndZeroOnSame ==
    Measured =>
        /\ Val(h_measured).ab = Val(h_measured).ba
        /\ Val(h_measured).aa = 0

\* Two points that differ in latitude and in longitude, with a distance
\* between them, have been measured.
C31_Witness ==
    /\ Measured
    /\ Val(h_measured).a[1] # Val(h_measured).b[1]
    /\ Val(h_measured).a[2] # Val(h_measured).b[2]
    /\ Val(h_measured).ab > 0

(***************************************************************************)
(* The fallback to the alternatives, call by call (SpecScoring).           *)
(***************************************************************************)
\* The calls for prices of the request so far, in order: the first is for the
\* requested airport, the others for the alternatives that have a code, in
\* the order of the request.
CallsFollowTheRequest ==
    /\ Len(s_calls) <= 1 + Len(AltCodes(s_alternatives))
    /\ \A k \in 1..Len(s_calls) :
         s_calls[k].airport = IF k = 1 THEN s_requested
                              ELSE AltCodes(s_alternatives)[k - 1]

\* C32: the pricer is invoked for an alternative only if the requested
\* airport and every alternative before it gave no price: every call but the
\* last gave none.  When the requested airport gives a price it is the only
\* call and the reported departure_airport is the requested one; nothing is
\* called after the adopted alternative; there are at most 1 + the number
\* of alternatives calls.
C32_AlternativesOnlyAfterFailures ==
    s_pc # "idle" =>
        /\ CallsFollowTheRequest
        /\ Len(s_calls) <= 1 + Len(s_alternatives)
        /\ \A k \in 1..Len(s_calls) :
             k < Len(s_calls) => ~HasValidPrice(s_calls[k].flight_prices)
        /\ (s_calls # << >> /\ HasValidPrice(s_calls[1].flight_prices)) =>
               /\ Len(s_calls) = 1
               /\ s_departure_airport = s_requested
               /\ ScoringAnswered => Val(s_response).departure_airport = s_requested
        /\ (ScoringAnswered /\ s_calls # << >>
               /\ HasValidPrice(s_calls[Len(s_calls)].flight_prices)) =>
               Val(s_response).departure_airport = s_calls[Len(s_calls)].airport

\* Of three alternatives, one without a code, the first with a code was
\* adopted after the requested airport gave no price, and the last one was
\* not called.
C32_Witness ==
    /\ ScoringAnswered
    /\ Len(s_alternatives) = 3
    /\ Len(s_calls) = 2
    /\ s_calls[1].ran /\ ~HasValidPrice(s_calls[1].flight_prices)
    /\ s_calls[2].airport = "BCN"
    /\ HasValidPrice(s_calls[2].flight_prices)
    /\ Val(s_response).departure_airport = "BCN"

(***************************************************************************)
(* The price a destination is scored with (SpecLookup).                    *)
(***************************************************************************)
\* The mapping of the effective origin: that of the last call when it gave a
\* price (the requested airport's or the adopted alternative's), else that of
\* the requested airport.
EffectivePrices ==
    IF HasValidPrice(s_calls[Len(s_calls)].flight_prices)
    THEN s_calls[Len(s_calls)].flight_prices
    ELSE s_calls[1].flight_prices

\* What the pricer's mapping holds for a destination: the pricer keys the
\* entry of a destination by its code stripped and in upper case.
HeldFor(iata_code) == DictGet(EffectivePrices, StripUpper(iata_code))

\* C33: for every destination that has an iata_code, the flight_price of its
\* scored record, and the price its flight score is computed from, is what
\* the mapping of the effective origin holds for that destination; a price
\* the pricer returned for it is never replaced by the default flight score.
C33_ScoredWithTheFetchedPrice ==
    ScoringAnswered =>
        LET recommendations == Val(s_response).recommendations
        IN \A n \in 1..Len(recommendations) :
             recommendations[n].iata_code # "" =>
                 /\ recommendations[n].details.flight_price =
                        HeldFor(recommendations[n].iata_code)
                 /\ recommendations[n].scores.flight_score =
                        Round3(calculate_flight_score(HeldFor(recommendations[n].iata_code)))

\* What the code keeps of C33: a destination whose stored iata_code is
\* already stripped and in upper case is scored with the price the mapping
\* holds for it.
C33_NormalisedCodesAreScoredWithTheFetchedPrice ==
    ScoringAnswered =>
        LET recommendations == Val(s_response).recommendations
        IN \A n \in 1..Len(recommendations) :
             (recommendations[n].iata_code # ""
                  /\ StripUpper(recommendations[n].iata_code) = recommendations[n].iata_code) =>
                 /\ recommendations[n].details.flight_price =
                        HeldFor(recommendations[n].iata_code)
                 /\ recommendations[n].scores.flight_score =
                        Round3(calculate_flight_score(HeldFor(recommendations[n].iata_code)))

(***************************************************************************)
(* The keys of the pricer's mapping (SpecCache).                           *)
(***************************************************************************)
\* The requested destination codes, stripped and in upper case.
RequestedCodes == { StripUpper(p_destinations[i]) : i \in 1..Len(p_destinations) }

PricerSucceeded == p_pc = "done" /\ PricerStatus = 200

\* C34: in every successful response of the pricer the keys of flight_prices
\* are exactly the requested destination codes stripped and in upper case:
\* every requested destination has an entry, a price or null, and there is
\* no other key.
C34_KeysAreTheRequestedCodes ==
    PricerSucceeded =>
        /\ DOMAIN Val(p_response).flight_prices = RequestedCodes
        /\ \A i \in 1..Len(p_destinations) :
             StripUpper(p_destinations[i]) \in DOMAIN Val(p_response).flight_prices

\* A request that spells one code in two ways was answered with one entry,
\* and it holds null.
C34_Witness ==
    /\ PricerSucceeded
    /\ p_destinations = << "LIS", "lis " >>
    /\ DOMAIN Val(p_response).flight_prices = {"LIS"}
    /\ IsNone(Val(p_response).flight_prices["LIS"])

(***************************************************************************)
(* What reaches the price cache (SpecRefetch).                             *)
(***************************************************************************)
\* The step in which the flight query of unit i is answered.
QueryStep(i) ==
    /\ i \in DOMAIN p_units
    /\ p_units[i].st = "search"
    /\ p_units'[i].queried

\* Every change of an entry is the put of a unit whose flight query for that
\* pair gave a price, and the entry holds that price; a query that gave no
\* price changes no entry and ends the unit with no price.
OnlyFetchedPricesAreWritten ==
    /\ \A k \in CacheKeys :
         cache'[k] # cache[k] =>
            \E i \in DOMAIN p_units :
               /\ PutStep(i)
               /\ PairOf(i) = k
               /\ p_units[i].queried
               /\ ~IsNone(search_flight_price(Val(p_units[i].reply)))
               /\ ~IsNone(cache'[k])
               /\ ToFloat(Val(cache'[k]).price) =
                      Val(search_flight_price(Val(p_units[i].reply)))
    /\ \A i \in 1..Len(p_destinations) :
         (QueryStep(i) /\ IsNone(p_units'[i].price)) =>
            /\ cache' = cache
            /\ put_log' = put_log
            /\ p_units'[i].st = "finished"
            /\ IsNone(p_units'[i].result)

\* The query for the pair of unit i gave no price in the request before
\* this one: this is the next request for the pair.
FailedInThePreviousRequest(i) ==
    /\ requests > 1
    /\ failed_in[PairOf(i)] = requests - 1

\* The lookup of unit i is a miss and the unit goes on to the flight query.
MissAndQuery(i) ==
    /\ IsNone(p_units'[i].cached_price)
    /\ p_units'[i].st = "search"

\* C35: the cache only ever holds prices that a successful flight query
\* returned for the same pair, an absent result is never written, and after
\* a failed lookup the next request for that pair is a cache miss and
\* queries the flight API again.
C35_FailedLookupIsFollowedByAMiss ==
    [][ /\ OnlyFetchedPricesAreWritten
        /\ \A i \in 1..Len(p_destinations) :
             (GetStep(i) /\ FailedInThePreviousRequest(i)) => MissAndQuery(i) ]_vars

\* What holds of C35: only fetched prices are written and an absent result
\* never is; after a failed lookup the next request for that pair is a miss
\* and queries again unless the store holds an unexpired price that another
\* query for the pair gave.
C35_OnlyFetchedPricesAreCached ==
    [][ /\ OnlyFetchedPricesAreWritten
        /\ \A i \in 1..Len(p_destinations) :
             ( /\ GetStep(i)
               /\ FailedInThePreviousRequest(i)
               /\ \/ put_log[PairOf(i)] = << >>
                  \/ now >= LastPut(PairOf(i)).at + 24 )
             => MissAndQuery(i) ]_vars

\* The query for LIS|MAD gave no price in the first request and nothing was
\* stored for the pair; the second request missed and has queried again.
C35_Witness ==
    /\ requests = 2
    /\ p_departure_airport = "LIS"
    /\ Len(p_units) = 1
    /\ failed_in[<< "LIS", "MAD" >>] = 1
    /\ put_log[<< "LIS", "MAD" >>] = << >>
    /\ IsNone(cache[<< "LIS", "MAD" >>])
    /\ IsNone(p_units[1].cached_price)
    /\ p_units[1].queried

====
